---- MODULE Spec2Model ----
(***************************************************************************)
(* A model of libdict: the dictzip reader (src/src/compressed.rs), the     *)
(* plain reader (src/src/uncompressed.rs), the index (src/src/index), the  *)
(* Dict facade (src/src/lib.rs) and the MmapCursor (src/src/mmap/mod.rs).  *)
(*                                                                         *)
(* Bytes are the integers 0..255, a file is a sequence of bytes, a string  *)
(* is the sequence of its Unicode code points.                             *)
(*                                                                         *)
(* A u64 value v is written v when v < 2^31 and v - 2^64 (a negative       *)
(* number) when v >= 2^64 - 2^31; the model draws no other value.  The     *)
(* U64 operators below compare and add numbers written this way.           *)
(***************************************************************************)
EXTENDS Integers, Sequences, FiniteSets, TLC

VARIABLES
    overflow_checks,  \* the build: TRUE panics on integer overflow (debug), FALSE wraps (release)
    content,          \* the uncompressed text the content file was made from
    wellformed,       \* whether the content file is an undamaged rendering of content
    dzfile,           \* the bytes of the .dict.dz file
    dz,               \* the Compressed reader, NoReader before Compressed::new succeeds
    rawfile,          \* the bytes of the .dict file
    raw,              \* the Uncompressed reader
    indexfile,        \* the characters of the .index file
    index,            \* the Index
    dictkind,         \* which reader the Dict owns: "raw" or "dz"
    result,           \* the last call: its name, its arguments and what it returned
    ioops             \* what the last call did to its file, in order

vars == <<overflow_checks, content, wellformed, dzfile, dz, rawfile, raw,
          indexfile, index, dictkind, result, ioops>>

(***************************************************************************)
(* Bounds of the model.                                                    *)
(***************************************************************************)
MaxTextLen == 5
MaxChunkLen == 3
MaxOffset == 6
MaxSize == 4

(***************************************************************************)
(* Results: Ok(v), Err(e), or a panic (the call aborts).                   *)
(***************************************************************************)
NoError == [error |-> "none"]
Ok(v) == [kind |-> "Ok", err |-> NoError, val |-> v]
Err(e) == [kind |-> "Err", err |-> e, val |-> << >>]
Panic(why) == [kind |-> "Panic", err |-> [error |-> "panic", why |-> why], val |-> << >>]
NoResult == [kind |-> "None", err |-> NoError, val |-> << >>]

\* DictError and IndexError values.
MemoryError == [error |-> "MemoryError"]
InvalidFileFormat == [error |-> "InvalidFileFormat"]
UnexpectedEof == [error |-> "IoError", io |-> "UnexpectedEof"]
Utf8Error == [error |-> "Utf8Error"]
DeflateError == [error |-> "Deflate"]
InvalidCharacter(ch, line, pos) ==
    [error |-> "InvalidCharacter", ch |-> ch, line |-> line, pos |-> pos]
MissingColumnInIndex(line) == [error |-> "MissingColumnInIndex", line |-> line]
WordNotFound(word) == [error |-> "WordNotFound", word |-> word]

NoReader == [open |-> FALSE]
NoCall == [op |-> "none", res |-> NoResult]

(***************************************************************************)
(* u64 arithmetic on the two windows of values the model draws.           *)
(***************************************************************************)
U64Lt(a, b) == IF (a < 0) = (b < 0) THEN a < b ELSE b < 0
U64Le(a, b) == a = b \/ U64Lt(a, b)
U64AddOverflows(a, b) ==
    \/ a < 0 /\ b < 0
    \/ (a < 0) # (b < 0) /\ a + b >= 0
Min(a, b) == IF a < b THEN a ELSE b

(***************************************************************************)
(* Slices and little-endian integers, offsets counted from 0 as in Rust.   *)
(***************************************************************************)
Slice(s, from, to) == SubSeq(s, from + 1, to)
ReadU16(s, at) == s[at + 1] + 256 * s[at + 2]
ReadI32(s, at) ==
    s[at + 1] + 256 * s[at + 2] + 65536 * s[at + 3]
    + 16777216 * (IF s[at + 4] >= 128 THEN s[at + 4] - 256 ELSE s[at + 4])
HasFlag(flags, mask) == (flags \div mask) % 2 = 1

(***************************************************************************)
(* String::from_utf8: well-formed sequences of one to four bytes.          *)
(***************************************************************************)
IsCont(b) == b >= 128 /\ b <= 191

RECURSIVE ValidUtf8(_)
ValidUtf8(b) ==
    IF b = << >> THEN TRUE
    ELSE LET n == IF b[1] < 128 THEN 1
                  ELSE IF b[1] >= 194 /\ b[1] <= 223 THEN 2
                  ELSE IF b[1] >= 224 /\ b[1] <= 239 THEN 3
                  ELSE IF b[1] >= 240 /\ b[1] <= 244 THEN 4
                  ELSE 0
         IN  /\ n > 0
             /\ Len(b) >= n
             /\ \A i \in 2..n : IsCont(b[i])
             /\ ValidUtf8(SubSeq(b, n + 1, Len(b)))

FromUtf8(b) == IF ValidUtf8(b) THEN Ok(b) ELSE Err(Utf8Error)

(***************************************************************************)
(* The gzip flag bits and the size limit of a definition.                  *)
(***************************************************************************)
GZ_FEXTRA == 4
GZ_FNAME == 8
GZ_COMMENT == 16
GZ_FHCRC == 2
MAX_BYTES_FOR_BUFFER == 1048576

(***************************************************************************)
(* flate2's raw inflate of one chunk into a zeroed buffer of cap bytes.    *)
(* The chunks of the model are stored blocks: a length byte, then the      *)
(* bytes themselves; a length byte of 255 is no block at all.              *)
(***************************************************************************)
Zeros(n) == [i \in 1..n |-> 0]
Deflate(chunk) == <<Len(chunk)>> \o chunk

Inflate(data, cap) ==
    IF data = << >> THEN Ok(Zeros(cap))
    ELSE IF data[1] = 255 THEN Err(DeflateError)
    ELSE LET n == Min(Min(data[1], Len(data) - 1), cap)
         IN  Ok(SubSeq(data, 2, n + 1) \o Zeros(cap - n))

(***************************************************************************)
(* The .dict.dz files the model reads: dictzip's layout of a text cut into *)
(* chunks of chunklen bytes, each deflated on its own, followed by the     *)
(* four bytes of the text's length.                                        *)
(***************************************************************************)
LE16(n) == <<n % 256, n \div 256>>
LE32(n) == <<n % 256, (n \div 256) % 256, (n \div 65536) % 256, n \div 16777216>>

RECURSIVE Concat(_)
Concat(ss) == IF ss = << >> THEN << >> ELSE ss[1] \o Concat(Tail(ss))

ChunkCountOf(text, chunklen) == (Len(text) + chunklen - 1) \div chunklen
ChunkOf(text, chunklen, i) ==
    Slice(text, (i - 1) * chunklen, Min(i * chunklen, Len(text)))

FileName == <<100, 0>>         \* "d" and its NUL
FileComment == <<104, 105, 0>> \* "hi" and its NUL

DzFile(text, chunklen, flags) ==
    LET cc == ChunkCountOf(text, chunklen)
        comp == [i \in 1..cc |-> Deflate(ChunkOf(text, chunklen, i))]
        xlen == 10 + 2 * cc
    IN  <<31, 139, 8, flags, 0, 0, 0, 0, 0, 3>> \o LE16(xlen)
        \o <<82, 65>> \o LE16(xlen - 4) \o LE16(1) \o LE16(chunklen) \o LE16(cc)
        \o Concat([i \in 1..cc |-> LE16(Len(comp[i]))])
        \o (IF HasFlag(flags, GZ_FNAME) THEN FileName ELSE << >>)
        \o (IF HasFlag(flags, GZ_COMMENT) THEN FileComment ELSE << >>)
        \o (IF HasFlag(flags, GZ_FHCRC) THEN <<0, 0>> ELSE << >>)
        \o Concat(comp)
        \o LE32(Len(text))

(***************************************************************************)
(* Damage to a file: bytes overwritten (at, counted from 0, or from the    *)
(* end when negative, and value), then the file cut to keep bytes;         *)
(* keep = -1 keeps it all.                                                 *)
(***************************************************************************)
RECURSIVE Patch(_, _)
Patch(file, writes) ==
    IF writes = << >> THEN file
    ELSE LET at == IF writes[1][1] < 0 THEN Len(file) + writes[1][1]
                   ELSE writes[1][1]
         IN  Patch([i \in 1..Len(file) |->
                       IF i = at + 1 THEN writes[1][2] ELSE file[i]],
                   Tail(writes))

Damage(file, d) ==
    LET patched == Patch(file, d.writes)
    IN  IF d.keep < 0 THEN patched ELSE SubSeq(patched, 1, Min(d.keep, Len(patched)))

Undamaged == [writes |-> << >>, keep |-> -1]

\* An XLEN of k with a matching subfield length: a FEXTRA field too short
\* for the fixed dictzip fields.
ShortXlen(k) ==
    [writes |-> <<<<10, k>>, <<11, 0>>>>
                \o (IF k >= 4 THEN <<<<14, k - 4>>, <<15, 0>>>> ELSE << >>),
     keep |-> -1]

Damages ==
    {Undamaged,
     [writes |-> <<<<1, 140>>>>, keep |-> -1],              \* magic 1F 8C
     [writes |-> <<<<1, 140>>>>, keep |-> 2],               \* the two bytes 1F 8C
     [writes |-> <<<<3, 0>>>>, keep |-> -1],                \* flags cleared
     [writes |-> <<<<12, 0>>, <<13, 0>>>>, keep |-> -1],    \* SI1 SI2
     [writes |-> <<<<14, 8>>, <<15, 9>>>>, keep |-> -1],    \* subfield length
     [writes |-> <<<<16, 0>>, <<17, 0>>>>, keep |-> -1],    \* version
     [writes |-> <<<<20, 0>>, <<21, 0>>>>, keep |-> -1],    \* chunk count 0
     [writes |-> <<<<20, 8>>, <<21, 9>>>>, keep |-> -1],    \* chunk count
     [writes |-> <<<<18, 0>>, <<19, 0>>>>, keep |-> -1],    \* chunk length 0
     [writes |-> <<<<22, 0>>, <<23, 0>>>>, keep |-> -1],    \* first chunk size 0
     [writes |-> <<<<-1, 128>>>>, keep |-> -1],             \* length with its top bit
     [writes |-> << >>, keep |-> 0],
     [writes |-> << >>, keep |-> 11],
     [writes |-> << >>, keep |-> 14],
     [writes |-> << >>, keep |-> 24]}
    \cup {ShortXlen(k) : k \in {0, 2, 4, 6, 8, 9}}

(***************************************************************************)
(* Compressed::new.  The reader it returns keeps the position of its       *)
(* buffer in pos.                                                          *)
(***************************************************************************)
\* The skip of a NUL-terminated field that stops in front of its NUL.
RECURSIVE SkipCString_before_nul(_, _)
SkipCString_before_nul(buf, pos) ==
    IF pos >= Len(buf) THEN -1
    ELSE IF buf[pos + 1] = 0 THEN pos
    ELSE SkipCString_before_nul(buf, pos + 1)

\* while buf.read_u8()? != 0 {}: the position after the NUL, -1 at the end
\* of the file.
RECURSIVE SkipCString(_, _)
SkipCString(buf, pos) ==
    IF pos >= Len(buf) THEN -1
    ELSE IF buf[pos + 1] = 0 THEN pos + 1
    ELSE SkipCString(buf, pos + 1)

RECURSIVE ChunkOffsets(_, _)
ChunkOffsets(sizes, start) ==
    IF sizes = << >> THEN << >>
    ELSE <<start>> \o ChunkOffsets(Tail(sizes), start + sizes[1])

RECURSIVE Sum(_)
Sum(s) == IF s = << >> THEN 0 ELSE s[1] + Sum(Tail(s))

Failed(r) == [res |-> r, reader |-> NoReader]

Compressed_new(buf) ==
    IF Len(buf) < 12 THEN Failed(Err(UnexpectedEof))
    ELSE IF Slice(buf, 0, 2) # <<31, 139>> THEN Failed(Err(InvalidFileFormat))
    ELSE LET flags == buf[4]
             xlen == ReadU16(buf, 10)
             fextra == Slice(buf, 12, 12 + xlen)
    IN
    IF ~HasFlag(flags, GZ_FEXTRA) THEN Failed(Err(InvalidFileFormat))
    ELSE IF Len(buf) < 12 + xlen THEN Failed(Err(UnexpectedEof))
    ELSE IF xlen < 2 THEN Failed(Panic("slice"))
    ELSE IF Slice(fextra, 0, 2) # <<82, 65>> THEN Failed(Err(InvalidFileFormat))
    ELSE IF xlen < 4 THEN Failed(Panic("slice"))
    ELSE IF ReadU16(fextra, 2) # xlen - 4 THEN Failed(Err(InvalidFileFormat))
    ELSE IF xlen < 6 THEN Failed(Panic("slice"))
    ELSE IF ReadU16(fextra, 4) # 1 THEN Failed(Err(InvalidFileFormat))
    ELSE IF xlen < 10 THEN Failed(Panic("slice"))
    ELSE LET uchunk_length == ReadU16(fextra, 6)
             chunk_count == ReadU16(fextra, 8)
             max_chunks == (xlen - 10) \div 2
             after_name == IF HasFlag(flags, GZ_FNAME)
                             THEN SkipCString(buf, 12 + xlen) ELSE 12 + xlen
             after_comment == IF after_name >= 0 /\ HasFlag(flags, GZ_COMMENT)
                                THEN SkipCString(buf, after_name) ELSE after_name
             header_end == IF HasFlag(flags, GZ_FHCRC)
                             THEN after_comment + 2 ELSE after_comment
             sizes == [i \in 1..chunk_count |-> ReadU16(fextra, 10 + 2 * (i - 1))]
             chunk_offsets == ChunkOffsets(sizes, header_end)
             end_compressed_data == header_end + Sum(sizes)
    IN
    IF chunk_count = 0 THEN Failed(Err(InvalidFileFormat))
    ELSE IF max_chunks # chunk_count THEN Failed(Err(InvalidFileFormat))
    ELSE IF after_name < 0 \/ after_comment < 0 THEN Failed(Err(UnexpectedEof))
    ELSE IF Len(buf) < end_compressed_data + 4 THEN Failed(Err(UnexpectedEof))
    ELSE [res |-> Ok(<< >>),
          reader |-> [open |-> TRUE,
                      pos |-> end_compressed_data + 4,
                      uchunk_length |-> uchunk_length,
                      end_compressed_data |-> end_compressed_data,
                      chunk_offsets |-> chunk_offsets,
                      ufile_length |-> ReadI32(buf, end_compressed_data)]]

(***************************************************************************)
(* Compressed::get_chunks_for and Compressed::fetch_definition.            *)
(***************************************************************************)
\* a / d for a u64 a and a divisor d in 1..65535.  A quotient of the upper
\* window is at least 2^47; it is written as the largest integer, which as
\* an index lies past the end of every vector.
U64Div(a, d) == IF a < 0 THEN 2147483647 ELSE a \div d
U64Rem(a, d) == a % d

\* The chunks of ids first..last: <<offset, length>> each.
Chunks(r, first, last) ==
    [k \in 1..(last - first + 1) |->
        LET id == first + k - 1
            offset == r.chunk_offsets[id + 1]
        IN  <<offset,
              IF id + 1 < Len(r.chunk_offsets)
                THEN r.chunk_offsets[id + 2] - offset
                ELSE r.end_compressed_data - offset>>]

get_chunks_for(r, start_offset, sum) ==
    IF r.uchunk_length = 0 THEN Panic("division by zero")
    ELSE LET first == U64Div(start_offset, r.uchunk_length)
             last == U64Div(sum, r.uchunk_length)
    IN  IF first > last THEN Ok(<< >>)
        ELSE IF last >= Len(r.chunk_offsets) THEN Panic("index out of bounds")
        ELSE Ok(Chunks(r, first, last))

\* The loop of fetch_definition over the chunks: seek, read_exact, inflate.
RECURSIVE ReadChunks(_, _, _, _, _, _)
ReadChunks(buf, cap, chunks, pos, data, ops) ==
    IF chunks = << >> THEN [res |-> Ok(data), pos |-> pos, ops |-> ops]
    ELSE LET offset == chunks[1][1]
             length == chunks[1][2]
             inflated == Inflate(Slice(buf, offset, offset + length), cap)
    IN  IF offset + length > Len(buf)
          THEN [res |-> Err(UnexpectedEof), pos |-> Len(buf),
                ops |-> ops \o <<"seek", "alloc", "read">>]
        ELSE IF inflated.kind # "Ok"
          THEN [res |-> inflated, pos |-> offset + length,
                ops |-> ops \o <<"seek", "alloc", "read", "inflate">>]
        ELSE ReadChunks(buf, cap, Tail(chunks), offset + length,
                        Append(data, inflated.val),
                        ops \o <<"seek", "alloc", "read", "inflate">>)

\* Cut definition, convert to string.
Splice(data, cut_front, length, cap) ==
    LET n == Len(data)
        remaining_bytes == (length + cut_front) % cap
    IN  IF n = 0 THEN Panic("unreachable")
        ELSE IF n = 1
          THEN IF cut_front + length > cap THEN Panic("slice")
               ELSE FromUtf8(Slice(data[1], cut_front, cut_front + length))
        ELSE FromUtf8(Slice(data[1], cut_front, cap)
                      \o Concat(SubSeq(data, 2, n - 1))
                      \o Slice(data[n], 0, remaining_bytes))

InBoundsDz(r, sum) == U64Lt(sum, r.ufile_length)

Compressed_fetch_definition(r, buf, start_offset, length) ==
    LET sum == start_offset + length
        chunks == get_chunks_for(r, start_offset, sum)
        read == ReadChunks(buf, r.uchunk_length, chunks.val, r.pos, << >>, << >>)
        untouched(res) == [res |-> res, pos |-> r.pos, ops |-> << >>]
    IN  IF ~U64Le(length, MAX_BYTES_FOR_BUFFER) THEN untouched(Err(MemoryError))
        ELSE IF overflow_checks /\ U64AddOverflows(start_offset, length)
          THEN untouched(Panic("overflow"))
        ELSE IF ~InBoundsDz(r, sum) THEN untouched(Err(UnexpectedEof))
        ELSE IF chunks.kind # "Ok" THEN untouched(chunks)
        ELSE IF read.res.kind # "Ok" THEN read
        ELSE [res |-> Splice(read.res.val, U64Rem(start_offset, r.uchunk_length),
                             length, r.uchunk_length),
              pos |-> read.pos, ops |-> read.ops]

(***************************************************************************)
(* Uncompressed::new and Uncompressed::fetch_definition, over a Cursor.    *)
(***************************************************************************)
Uncompressed_new(buf) == [open |-> TRUE, pos |-> Len(buf), length |-> Len(buf)]

InBoundsRaw(r, sum) == U64Le(sum, r.length)

\* fetch_definition with the seek done after the read: the bytes come from
\* wherever the call before left the reader.
Uncompressed_fetch_definition_seek_after_read(r, buf, offset, size) ==
    LET sum == offset + size
        untouched(res) == [res |-> res, pos |-> r.pos, ops |-> << >>]
        bytes_read == IF r.pos >= Len(buf) THEN 0 ELSE Min(size, Len(buf) - r.pos)
        ops == <<"alloc", "read", "seek">>
    IN  IF ~U64Le(size, MAX_BYTES_FOR_BUFFER) THEN untouched(Err(MemoryError))
        ELSE IF overflow_checks /\ U64AddOverflows(offset, size)
          THEN untouched(Panic("overflow"))
        ELSE IF ~InBoundsRaw(r, sum) THEN untouched(Err(UnexpectedEof))
        ELSE IF bytes_read # size
          THEN [res |-> Err(UnexpectedEof), pos |-> offset, ops |-> ops]
        ELSE [res |-> FromUtf8(Slice(buf, r.pos, r.pos + size)),
              pos |-> offset, ops |-> ops]

Uncompressed_fetch_definition(r, buf, offset, size) ==
    LET sum == offset + size
        untouched(res) == [res |-> res, pos |-> r.pos, ops |-> << >>]
        \* Cursor::read: what is left of the buffer from the position on
        bytes_read == IF offset < 0 \/ offset >= Len(buf) THEN 0
                      ELSE Min(size, Len(buf) - offset)
        ops == <<"seek", "alloc", "read">>
    IN  IF ~U64Le(size, MAX_BYTES_FOR_BUFFER) THEN untouched(Err(MemoryError))
        ELSE IF overflow_checks /\ U64AddOverflows(offset, size)
          THEN untouched(Panic("overflow"))
        ELSE IF ~InBoundsRaw(r, sum) THEN untouched(Err(UnexpectedEof))
        ELSE IF bytes_read # size
          THEN [res |-> Err(UnexpectedEof), pos |-> offset + bytes_read, ops |-> ops]
        ELSE [res |-> FromUtf8(Slice(buf, offset, offset + size)),
              pos |-> offset + size, ops |-> ops]

(***************************************************************************)
(* Index: strings.  A String read from the index file or given as a query  *)
(* is the sequence of its chars (Unicode scalar values); a String fetched  *)
(* from the dictionary content is kept as its UTF-8 bytes.  str ordering   *)
(* is bytewise, which for UTF-8 is the ordering of the char sequences.     *)
(***************************************************************************)

\* str::len: the length in bytes of the UTF-8 encoding.
RECURSIVE Utf8Len(_)
Utf8Len(s) ==
    IF s = << >> THEN 0
    ELSE (IF Head(s) < 128 THEN 1 ELSE IF Head(s) < 2048 THEN 2
          ELSE IF Head(s) < 65536 THEN 3 ELSE 4) + Utf8Len(Tail(s))

\* Ord for str: -1 (Less), 0 (Equal), 1 (Greater).
RECURSIVE Cmp(_, _)
Cmp(a, b) ==
    IF a = << >> THEN (IF b = << >> THEN 0 ELSE -1)
    ELSE IF b = << >> THEN 1
    ELSE IF Head(a) < Head(b) THEN -1
    ELSE IF Head(a) > Head(b) THEN 1
    ELSE Cmp(Tail(a), Tail(b))

StartsWith(s, prefix) ==
    Len(s) >= Len(prefix) /\ SubSeq(s, 1, Len(prefix)) = prefix

Contains(s, needle) ==
    \E i \in 1..(Len(s) - Len(needle) + 1) :
        SubSeq(s, i, i + Len(needle) - 1) = needle

\* char::is_whitespace (White_Space), on the chars below U+0100.
is_whitespace(c) == c \in {9, 10, 11, 12, 13, 32, 133, 160}

\* char::is_alphanumeric: ASCII and Latin-1 letters and digits, the dotted
\* capital I (U+0130); the combining dot above (U+0307) is a mark.
is_alphanumeric(c) ==
    \/ c \in 48..57 \/ c \in 65..90 \/ c \in 97..122
    \/ c \in {170, 181, 186}
    \/ c \in 192..214 \/ c \in 216..246 \/ c \in 248..255
    \/ c = 304

\* char::to_lowercase: one char can lower to several (U+0130 -> i, U+0307).
LowerChar(c) ==
    IF c \in 65..90 THEN <<c + 32>>
    ELSE IF c \in 192..214 \/ c \in 216..222 THEN <<c + 32>>
    ELSE IF c = 304 THEN <<105, 775>>
    ELSE <<c>>

RECURSIVE to_lowercase(_)
to_lowercase(s) ==
    IF s = << >> THEN << >> ELSE LowerChar(Head(s)) \o to_lowercase(Tail(s))

\* unidecode: ASCII is kept; the table holds the non-ASCII chars the model
\* draws (sharp s, e acute, E acute, dotted I, combining dot).
UnidecodeChar(c) ==
    IF c < 128 THEN <<c>>
    ELSE IF c = 223 THEN <<115, 115>>
    ELSE IF c = 233 THEN <<101>>
    ELSE IF c = 201 THEN <<69>>
    ELSE IF c = 304 THEN <<73>>
    ELSE << >>

RECURSIVE unidecode(_)
unidecode(s) ==
    IF s = << >> THEN << >> ELSE UnidecodeChar(Head(s)) \o unidecode(Tail(s))

RECURSIVE trim_end(_)
trim_end(s) ==
    IF s # << >> /\ is_whitespace(s[Len(s)]) THEN trim_end(SubSeq(s, 1, Len(s) - 1))
    ELSE s

RECURSIVE trim_start(_)
trim_start(s) ==
    IF s # << >> /\ is_whitespace(Head(s)) THEN trim_start(Tail(s)) ELSE s

trim(s) == trim_end(trim_start(s))

\* levenshtein::levenshtein: the edit distance, computed row by row.
Min3(a, b, c) == Min(a, Min(b, c))

RECURSIVE LevRow(_, _, _, _)
LevRow(prev, a, code_b, row) ==
    LET i == Len(row) IN
    IF i > Len(a) THEN row
    ELSE LevRow(prev, a, code_b,
                Append(row, Min3(prev[i + 1] + 1, row[i] + 1,
                                 prev[i] + (IF a[i] = code_b THEN 0 ELSE 1))))

RECURSIVE LevRows(_, _, _, _)
LevRows(a, b, j, prev) ==
    IF j > Len(b) THEN prev[Len(a) + 1]
    ELSE LevRows(a, b, j + 1, LevRow(prev, a, b[j], <<j>>))

levenshtein(a, b) == LevRows(a, b, 1, [k \in 1..(Len(a) + 1) |-> k - 1])

(***************************************************************************)
(* Index: parsing of the index file (index/parsing.rs).                    *)
(***************************************************************************)

IsOk(r) == r.kind = "Ok"

None == [some |-> FALSE, val |-> << >>]
Some(v) == [some |-> TRUE, val |-> v]

\* BufRead::read_line at pos: the chars up to and including the next '\n',
\* or up to the end of the file; empty at the end of the file.
read_line(text, pos) ==
    LET ends == {j \in (pos + 1)..Len(text) : text[j] = 10}
        last == IF ends = {} THEN Len(text)
                ELSE CHOOSE j \in ends : \A k \in ends : j <= k
    IN  SubSeq(text, pos + 1, last)

\* str::split(sep): at least one field, one more for every separator.
RECURSIVE split(_, _)
split(s, sep) ==
    LET at == {j \in 1..Len(s) : s[j] = sep} IN
    IF at = {} THEN <<s>>
    ELSE LET j == CHOOSE j \in at : \A k \in at : j <= k
         IN  <<SubSeq(s, 1, j - 1)>> \o split(SubSeq(s, j + 1, Len(s)), sep)

\* get_base: the value of a base-64 digit, -1 for any other char.
get_base(ch) ==
    IF ch \in 65..90 THEN ch - 65
    ELSE IF ch \in 97..122 THEN ch - 71
    ELSE IF ch \in 48..57 THEN ch + 4
    ELSE IF ch = 43 THEN 62
    ELSE IF ch = 47 THEN 63
    ELSE -1

\* A u64 in decode_number: eleven base-64 limbs, the lowest first; the
\* eleventh holds the four highest bits.
Zero64 == <<0, 0, 0, 0, 0, 0, 0, 0, 0, 0, 0>>

\* The u64 as the rest of the model carries it: a number below 2^30 as
\* itself, a number of the highest 2^30 as itself minus 2^64; the model
\* draws no index file whose offsets or sizes lie between the two.
U64Of(limbs) ==
    LET low == limbs[1] + 64 * limbs[2] + 4096 * limbs[3] + 262144 * limbs[4]
               + 16777216 * limbs[5]
    IN  IF \A k \in 6..11 : limbs[k] = 0 THEN low
        ELSE IF limbs[11] = 15 /\ \A k \in 6..10 : limbs[k] = 63
        THEN low - 1073741824
        ELSE limbs

\* decode_number: the digits are visited from the last to the first; digit i
\* (from the right) adds get_base(ch) * 64^i.  64u64.pow(i) overflows from
\* i = 11 on and the product overflows at i = 10 for a digit above 15: a
\* panic with overflow checks; without them pow wraps to 0 and the product
\* keeps its low 64 bits.  The sum itself never carries: digit i only
\* touches limb i.
RECURSIVE DecodeFrom(_, _, _, _)
DecodeFrom(ctx, s, i, number) ==
    IF i >= Len(s) THEN Ok(number)
    ELSE LET ch == s[Len(s) - i]
             base == get_base(ch)
         IN  IF base < 0 THEN Err(InvalidCharacter(ch, ctx.line, ctx.pos))
             ELSE IF i >= 11
                  THEN IF overflow_checks THEN Panic("overflow")
                       ELSE DecodeFrom(ctx, s, i + 1, number)
             ELSE IF i = 10 /\ base >= 16
                  THEN IF overflow_checks THEN Panic("overflow")
                       ELSE DecodeFrom(ctx, s, i + 1,
                                       [number EXCEPT ![11] = base % 16])
             ELSE DecodeFrom(ctx, s, i + 1, [number EXCEPT ![i + 1] = base])

decode_number(ctx, s) == DecodeFrom(ctx, s, 0, Zero64)

\* parse_line on line number ctx_line (0-based count of lines parsed so far).
parse_line(ctx_line, line) ==
    LET columns(cols) ==
            LET word == cols[1]
                with_size(offset, size) ==
                    IF ~IsOk(size) THEN size
                    ELSE Ok([headword |-> word,
                             location |-> [offset |-> U64Of(offset.val),
                                          size |-> U64Of(size.val)],
                             original |-> IF Len(cols) >= 4 THEN Some(cols[4])
                                          ELSE None])
                with_offset(offset) ==
                    IF ~IsOk(offset) THEN offset
                    ELSE IF Len(cols) < 3 THEN Err(MissingColumnInIndex(ctx_line))
                    ELSE with_size(offset,
                             decode_number([line |-> ctx_line,
                                            pos |-> Utf8Len(word) + Utf8Len(cols[2])],
                                           cols[3]))
            IN  IF Len(cols) < 2 THEN Err(MissingColumnInIndex(ctx_line))
                ELSE with_offset(decode_number([line |-> ctx_line,
                                                pos |-> Utf8Len(word)], cols[2]))
    IN  columns(split(line, 9))

MetadataIndex_default ==
    [info |-> None, short_name |-> None, url |-> None,
     all_chars |-> FALSE, case_sensitive |-> FALSE, should_normalize |-> FALSE]

Prefix00Database == <<48, 48, 45, 100, 97, 116, 97, 98, 97, 115, 101, 45>> \* "00-database-"
Prefix00database == <<48, 48, 100, 97, 116, 97, 98, 97, 115, 101>>          \* "00database"

\* The match of parse_metadata with the "dictfmt" arm in front of the
\* "case" arm.
MetadataWith_dictfmt_before_case(metadata, info_section, location) ==
    IF info_section = <<105, 110, 102, 111>>
    THEN [metadata EXCEPT !.info = Some(location)]
    ELSE IF info_section = <<115, 104, 111, 114, 116>>
    THEN [metadata EXCEPT !.short_name = Some(location)]
    ELSE IF info_section = <<117, 114, 108>>
    THEN [metadata EXCEPT !.url = Some(location)]
    ELSE IF info_section = <<97, 108, 108, 99, 104, 97, 114, 115>>
    THEN [metadata EXCEPT !.all_chars = TRUE]
    ELSE IF Contains(info_section, <<100, 105, 99, 116, 102, 109, 116>>)
    THEN [metadata EXCEPT !.should_normalize = TRUE]
    ELSE IF Contains(info_section, <<99, 97, 115, 101>>)
    THEN [metadata EXCEPT !.case_sensitive = TRUE]
    ELSE metadata

\* The match of parse_metadata on the section name, first arm first.
MetadataWith(metadata, info_section, location) ==
    IF info_section = <<105, 110, 102, 111>>                          \* "info"
    THEN [metadata EXCEPT !.info = Some(location)]
    ELSE IF info_section = <<115, 104, 111, 114, 116>>                \* "short"
    THEN [metadata EXCEPT !.short_name = Some(location)]
    ELSE IF info_section = <<117, 114, 108>>                          \* "url"
    THEN [metadata EXCEPT !.url = Some(location)]
    ELSE IF info_section = <<97, 108, 108, 99, 104, 97, 114, 115>>    \* "allchars"
    THEN [metadata EXCEPT !.all_chars = TRUE]
    ELSE IF Contains(info_section, <<99, 97, 115, 101>>)              \* "case"
    THEN [metadata EXCEPT !.case_sensitive = TRUE]
    ELSE IF Contains(info_section, <<100, 105, 99, 116, 102, 109, 116>>) \* "dictfmt"
    THEN [metadata EXCEPT !.should_normalize = TRUE]
    ELSE metadata

\* The section name of a metadata headword, None for any other headword.
InfoSection(headword) ==
    IF StartsWith(headword, Prefix00Database)
    THEN Some(SubSeq(headword, 13, Len(headword)))
    ELSE IF StartsWith(headword, Prefix00database)
    THEN Some(SubSeq(headword, 11, Len(headword)))
    ELSE None

\* parse_metadata from the start of the reader: [res, pos], pos being the
\* reader's position afterwards.
RECURSIVE MetadataLoop(_, _, _, _, _)
MetadataLoop(text, pos, ctx_line, metadata, reading_info) ==
    LET with_section(next, entry, section) ==
            IF section.some
            THEN MetadataLoop(text, next, ctx_line + 1,
                              MetadataWith(metadata, section.val, entry.location), TRUE)
            ELSE IF reading_info THEN [res |-> Ok(metadata), pos |-> next]
            ELSE MetadataLoop(text, next, ctx_line + 1, metadata, reading_info)
        with_entry(next, entry) ==
            IF ~IsOk(entry) THEN [res |-> entry, pos |-> next]
            ELSE with_section(next, entry.val, InfoSection(entry.val.headword))
        with_line(line) ==
            IF line = << >> THEN [res |-> Ok(metadata), pos |-> pos]
            ELSE with_entry(pos + Len(line), parse_line(ctx_line, trim_end(line)))
    IN  with_line(read_line(text, pos))

parse_metadata(text) == MetadataLoop(text, 0, 0, MetadataIndex_default, FALSE)

\* parse from pos: the entries of all lines, the "00" headwords skipped.
RECURSIVE ParseLoop(_, _, _, _)
ParseLoop(text, pos, ctx_line, entries) ==
    LET with_entry(next, entry) ==
            IF ~IsOk(entry) THEN [res |-> entry, pos |-> next]
            ELSE IF StartsWith(entry.val.headword, <<48, 48>>)
            THEN ParseLoop(text, next, ctx_line + 1, entries)
            ELSE ParseLoop(text, next, ctx_line + 1, Append(entries, entry.val))
        with_line(line) ==
            IF line = << >> THEN [res |-> Ok(entries), pos |-> pos]
            ELSE with_entry(pos + Len(line), parse_line(ctx_line, trim_end(line)))
    IN  with_line(read_line(text, pos))

parse(text, pos) == ParseLoop(text, pos, 0, << >>)

(***************************************************************************)
(* Index: Index<R> (index/mod.rs).  The reader is a cursor over the index  *)
(* file; an Index value holds the cursor position, the entries, the        *)
(* metadata and the loaded flag.                                           *)
(***************************************************************************)
NoIndex == [open |-> FALSE]

Metadata_default ==
    [info |-> None, short_name |-> None, url |-> None,
     all_chars |-> FALSE, case_sensitive |-> FALSE, should_normalize |-> FALSE]

NewIndex(pos, metadata) ==
    [open |-> TRUE, pos |-> pos, entries |-> << >>, metadata |-> metadata,
     loaded |-> FALSE]

\* Index::new with an error of parse_metadata dropped.
Index_new_error_dropped(text) ==
    LET with(parsed) ==
            IF ~IsOk(parsed.res)
            THEN [res |-> Ok(<< >>), index |-> NewIndex(parsed.pos, Metadata_default)]
            ELSE [res |-> Ok(<< >>),
                  index |-> NewIndex(parsed.pos,
                      [Metadata_default EXCEPT
                          !.all_chars = parsed.res.val.all_chars,
                          !.case_sensitive = parsed.res.val.case_sensitive,
                          !.should_normalize = parsed.res.val.should_normalize])]
    IN  with(parse_metadata(text))

\* Index::new: [res, index].
Index_new(text) ==
    LET made(parsed, flags) ==
            IF ~IsOk(parsed.res) THEN [res |-> parsed.res, index |-> NoIndex]
            ELSE [res |-> Ok(<< >>),
                  index |-> NewIndex(parsed.pos,
                      [Metadata_default EXCEPT
                          !.all_chars = flags.all_chars,
                          !.case_sensitive = flags.case_sensitive,
                          !.should_normalize = flags.should_normalize])]
        with(parsed) == made(parsed, parsed.res.val)
    IN  with(parse_metadata(text))

Kept(c) == is_alphanumeric(c) \/ is_whitespace(c)

normalize_headword(headword, metadata) ==
    LET filtered == IF ~metadata.all_chars THEN SelectSeq(headword, Kept)
                    ELSE headword
    IN  IF ~metadata.case_sensitive THEN to_lowercase(filtered) ELSE filtered

\* normalize with the old headword kept as the original of every entry.
normalize_original_always(entries, metadata) ==
    [i \in 1..Len(entries) |->
        [entries[i] EXCEPT
            !.headword = normalize_headword(entries[i].headword, metadata),
            !.original = Some(entries[i].headword)]]

normalize(entries, metadata) ==
    [i \in 1..Len(entries) |->
        LET old_headword == entries[i].headword
            headword == normalize_headword(old_headword, metadata)
        IN  [entries[i] EXCEPT
                !.headword = headword,
                !.original = IF old_headword # headword THEN Some(old_headword)
                             ELSE None]]

\* load_entries without the seek to the start.
load_entries_no_seek(ix, text) ==
    LET with(parsed) ==
            IF ~IsOk(parsed.res)
            THEN [res |-> parsed.res, index |-> [ix EXCEPT !.pos = parsed.pos]]
            ELSE [res |-> Ok(<< >>),
                  index |-> [ix EXCEPT
                      !.pos = parsed.pos,
                      !.entries = IF ix.metadata.should_normalize
                                  THEN normalize(parsed.res.val, ix.metadata)
                                  ELSE parsed.res.val]]
    IN  with(parse(text, ix.pos))

\* load_entries: [res, index]; the reader is left where parsing stopped.
load_entries(ix, text) ==
    LET with(parsed) ==
            IF ~IsOk(parsed.res)
            THEN [res |-> parsed.res, index |-> [ix EXCEPT !.pos = parsed.pos]]
            ELSE [res |-> Ok(<< >>),
                  index |-> [ix EXCEPT
                      !.pos = parsed.pos,
                      !.entries = IF ix.metadata.should_normalize
                                  THEN normalize(parsed.res.val, ix.metadata)
                                  ELSE parsed.res.val]]
    IN  with(parse(text, 0))

\* The lazy load with the flag set whatever load_entries returns.
LazyLoad_flag_before_load(ix, text) ==
    LET with(loading) ==
            [res |-> loading.res, index |-> [loading.index EXCEPT !.loaded = TRUE]]
    IN  IF ix.loaded THEN [res |-> Ok(<< >>), index |-> ix]
        ELSE with(load_entries(ix, text))

\* The first step of find: the index after the lazy load.
LazyLoad(ix, text) ==
    LET with(loading) ==
            IF ~IsOk(loading.res) THEN loading
            ELSE [res |-> loading.res, index |-> [loading.index EXCEPT !.loaded = TRUE]]
    IN  IF ix.loaded THEN [res |-> Ok(<< >>), index |-> ix]
        ELSE with(load_entries(ix, text))

\* The query as find compares it: normalized, then trimmed.
Query(metadata, headword) == trim(normalize_headword(headword, metadata))

\* The filter of the fuzzy branch with the relaxed flag ignored.
FuzzyMatch_relaxed_ignored(entry, headword, relaxed) ==
    levenshtein(headword, entry.headword) <= 1

\* The filter of the fuzzy branch.
FuzzyMatch(entry, headword, relaxed) ==
    IF relaxed THEN levenshtein(headword, trim(unidecode(entry.headword))) <= 1
    ELSE levenshtein(headword, entry.headword) <= 1

\* The comparator handed to binary_search_by.
Comparator(entry, headword, relaxed) ==
    IF relaxed THEN Cmp(trim(unidecode(entry.headword)), headword)
    ELSE Cmp(entry.headword, headword)

\* slice::binary_search_by over [lo, hi) (0-based).  Which of several equal
\* elements it returns is unspecified and differs between releases of the
\* standard library, so the outcome is any index a sequence of probes inside
\* the current range can end on, or -1 for Err.
RECURSIVE SearchFrom(_, _, _)
SearchFrom(ord, lo, hi) ==
    IF lo >= hi THEN {-1}
    ELSE UNION { IF ord[mid + 1] = 0 THEN {mid}
                 ELSE IF ord[mid + 1] < 0 THEN SearchFrom(ord, mid + 1, hi)
                 ELSE SearchFrom(ord, lo, mid) : mid \in lo..(hi - 1) }

binary_search_by(entries, headword, relaxed) ==
    SearchFrom([i \in 1..Len(entries) |-> Comparator(entries[i], headword, relaxed)],
               0, Len(entries))

\* The two loops around the pivot without their break.
RunBreaks_never(entry, headword, relaxed) == FALSE

\* The break condition of the two loops around the pivot.
RunBreaks(entry, headword, relaxed) ==
    IF relaxed /\ unidecode(entry.headword) # headword THEN TRUE
    ELSE entry.headword # headword

\* The entries pushed by a loop over from..(to - 1) (0-based) until its break.
RECURSIVE RunFrom(_, _, _, _, _)
RunFrom(entries, from, to, headword, relaxed) ==
    IF from >= to \/ RunBreaks(entries[from + 1], headword, relaxed) THEN << >>
    ELSE <<entries[from + 1]>> \o RunFrom(entries, from + 1, to, headword, relaxed)

\* find with the pivot entry pushed before the entries left of it.
Search_pivot_first(entries, headword, fuzzy, relaxed, pivot) ==
    LET matches(entry) == FuzzyMatch(entry, headword, relaxed)
        results == SelectSeq(entries, matches)
    IN  IF fuzzy
        THEN IF results = << >> THEN Err(WordNotFound(headword)) ELSE Ok(results)
        ELSE IF pivot >= 0
        THEN Ok(<<entries[pivot + 1]>>
                \o RunFrom(entries, 0, pivot, headword, relaxed)
                \o RunFrom(entries, pivot + 1, Len(entries), headword, relaxed))
        ELSE Err(WordNotFound(headword))

\* The rest of find on the loaded entries; pivot is the outcome of the
\* binary search (not used by the fuzzy branch).
Search(entries, headword, fuzzy, relaxed, pivot) ==
    LET matches(entry) == FuzzyMatch(entry, headword, relaxed)
        results == SelectSeq(entries, matches)
    IN  IF fuzzy
        THEN IF results = << >> THEN Err(WordNotFound(headword)) ELSE Ok(results)
        ELSE IF pivot >= 0
        THEN Ok(RunFrom(entries, 0, pivot, headword, relaxed)
                \o <<entries[pivot + 1]>>
                \o RunFrom(entries, pivot + 1, Len(entries), headword, relaxed))
        ELSE Err(WordNotFound(headword))

\* Index::find after the lazy load.
FindIn(loading, headword, fuzzy, relaxed, pivot) ==
    IF ~IsOk(loading.res) THEN loading
    ELSE [res |-> Search(loading.index.entries, headword, fuzzy, relaxed, pivot),
          index |-> loading.index]

\* The outcomes the binary search of find can have after the lazy load.
PivotsIn(loading, headword, fuzzy, relaxed) ==
    IF ~IsOk(loading.res) \/ fuzzy THEN {-1}
    ELSE binary_search_by(loading.index.entries, headword, relaxed)

Pivots(ix, text, headword, fuzzy, relaxed) ==
    PivotsIn(LazyLoad(ix, text), Query(ix.metadata, headword), fuzzy, relaxed)

\* Index::find: [res, index].
Index_find(ix, text, headword, fuzzy, relaxed, pivot) ==
    FindIn(LazyLoad(ix, text), Query(ix.metadata, headword), fuzzy, relaxed, pivot)

(***************************************************************************)
(* Dict (lib.rs): a content reader behind Box<dyn DictReader> and an       *)
(* index.  kind is "dz" for Compressed and "raw" for Uncompressed.         *)
(***************************************************************************)

\* DictReader::fetch_definition through the box: [res, pos, ops].
fetch_definition(kind, r, buf, location) ==
    IF kind = "dz"
    THEN Compressed_fetch_definition(r, buf, location.offset, location.size)
    ELSE Uncompressed_fetch_definition(r, buf, location.offset, location.size)

\* The conversion of an IndexError behind `?` in a function returning
\* DictError: the variant and its payload are kept.
FromIndexError(e) == e

Propagate(res) == IF res.kind = "Err" THEN Err(FromIndexError(res.err)) ELSE res

\* str::trim on a String kept as UTF-8 bytes (ASCII white space).
RECURSIVE TrimBytes(_)
TrimBytes(b) ==
    IF b # << >> /\ Head(b) \in {9, 10, 11, 12, 13, 32} THEN TrimBytes(Tail(b))
    ELSE IF b # << >> /\ b[Len(b)] \in {9, 10, 11, 12, 13, 32}
         THEN TrimBytes(SubSeq(b, 1, Len(b) - 1))
    ELSE b

\* The remap closure without the cut: the definition trimmed.
remap_first_line_kept(def) == TrimBytes(def)

\* The remap closure of new_full: from the first newline on, unless that
\* newline is the last byte or there is none; then trimmed.
remap(def) ==
    LET at == {j \in 1..Len(def) : def[j] = 10}
        found == IF at = {} THEN -1
                 ELSE (CHOOSE j \in at : \A k \in at : j <= k) - 1
        start == IF found >= 0 /\ found < Len(def) - 1 THEN found ELSE 0
    IN  TrimBytes(SubSeq(def, start + 1, Len(def)))

\* The three metadata fetches of new_full, in order, from item i on:
\* [res, pos, metadata]; the first failing fetch ends them.
MetadataItems == <<"info", "short_name", "url">>

RECURSIVE FetchMetadata(_, _, _, _, _, _)
FetchMetadata(kind, r, buf, metadata_index, i, metadata) ==
    LET with(item, got) ==
            IF ~IsOk(got.res)
            THEN [res |-> got.res, pos |-> got.pos, metadata |-> metadata]
            ELSE FetchMetadata(kind, [r EXCEPT !.pos = got.pos], buf, metadata_index,
                               i + 1,
                               [metadata EXCEPT ![item] = Some(remap(got.res.val))])
        fetch(item) ==
            IF ~metadata_index[item].some
            THEN FetchMetadata(kind, r, buf, metadata_index, i + 1, metadata)
            ELSE with(item, fetch_definition(kind, r, buf, metadata_index[item].val))
    IN  IF i > Len(MetadataItems)
        THEN [res |-> Ok(<< >>), pos |-> r.pos, metadata |-> metadata]
        ELSE fetch(MetadataItems[i])

\* Index::new_full: [res, index, pos], pos the content reader's position.
Index_new_full(text, kind, r, buf) ==
    LET made(parsed, flags, fetched) ==
            IF ~IsOk(fetched.res)
            THEN [res |-> fetched.res, index |-> NoIndex, pos |-> fetched.pos]
            ELSE [res |-> Ok(<< >>),
                  index |-> NewIndex(parsed.pos,
                      [fetched.metadata EXCEPT
                          !.all_chars = flags.all_chars,
                          !.case_sensitive = flags.case_sensitive,
                          !.should_normalize = flags.should_normalize]),
                  pos |-> fetched.pos]
        with(parsed) ==
            IF ~IsOk(parsed.res)
            THEN [res |-> Propagate(parsed.res), index |-> NoIndex, pos |-> r.pos]
            ELSE made(parsed, parsed.res.val,
                      FetchMetadata(kind, r, buf, parsed.res.val, 1, Metadata_default))
    IN  with(parse_metadata(text))

\* The loop of lookup, were it to show the stored headword of every entry.
RECURSIVE FetchResults_stored_headword(_, _, _, _, _, _)
FetchResults_stored_headword(kind, r, buf, entries, i, results) ==
    LET with(entry, got) ==
            IF ~IsOk(got.res) THEN [res |-> got.res, pos |-> got.pos]
            ELSE FetchResults_stored_headword(
                     kind, [r EXCEPT !.pos = got.pos], buf, entries, i + 1,
                     Append(results, [headword |-> entry.headword,
                                      definition |-> got.res.val]))
        fetch(entry) == with(entry, fetch_definition(kind, r, buf, entry.location))
    IN  IF i > Len(entries) THEN [res |-> Ok(results), pos |-> r.pos]
        ELSE fetch(entries[i])

\* The loop of lookup over the found entries, from entry i on: [res, pos].
RECURSIVE FetchResults(_, _, _, _, _, _)
FetchResults(kind, r, buf, entries, i, results) ==
    LET with(entry, got) ==
            IF ~IsOk(got.res) THEN [res |-> got.res, pos |-> got.pos]
            ELSE FetchResults(kind, [r EXCEPT !.pos = got.pos], buf, entries, i + 1,
                     Append(results,
                            [headword |-> IF entry.original.some
                                          THEN entry.original.val
                                          ELSE entry.headword,
                             definition |-> got.res.val]))
        fetch(entry) == with(entry, fetch_definition(kind, r, buf, entry.location))
    IN  IF i > Len(entries) THEN [res |-> Ok(results), pos |-> r.pos]
        ELSE fetch(entries[i])

\* Dict::lookup: [res, index, pos].
Dict_lookup(ix, text, kind, r, buf, word, fuzzy, relaxed, pivot) ==
    LET fetched(found, got) ==
            [res |-> got.res, index |-> found.index, pos |-> got.pos]
        with(found) ==
            IF ~IsOk(found.res)
            THEN [res |-> Propagate(found.res), index |-> found.index, pos |-> r.pos]
            ELSE fetched(found, FetchResults(kind, r, buf, found.res.val, 1, << >>))
    IN  with(Index_find(ix, text, word, fuzzy, relaxed, pivot))

(***************************************************************************)
(* The inputs the model draws.                                             *)
(***************************************************************************)
\* "a", U+00DF in UTF-8, "cdefgh"
BaseText == <<97, 195, 159, 99, 100, 101, 102, 103>>
Texts == {SubSeq(BaseText, 1, n) : n \in 3..MaxTextLen}
ChunkLens == 2..MaxChunkLen
FlagSets == {GZ_FEXTRA, GZ_FEXTRA + GZ_FNAME, GZ_FEXTRA + GZ_COMMENT + GZ_FHCRC,
             GZ_FEXTRA + GZ_FNAME + GZ_COMMENT}
\* -1 is the offset 2^64 - 1.
Offsets == 0..MaxOffset \cup {-1}
Sizes == 0..MaxSize \cup {MAX_BYTES_FOR_BUFFER, MAX_BYTES_FOR_BUFFER + 1}


(***************************************************************************)
(* The dictzip reader on its own: open a file, then fetch from it.         *)
(***************************************************************************)
InitDz ==
    /\ overflow_checks \in BOOLEAN
    /\ content \in Texts
    /\ \E chunklen \in ChunkLens, flags \in FlagSets, d \in Damages :
          /\ dzfile = Damage(DzFile(content, chunklen, flags), d)
          /\ wellformed = (d = Undamaged)
    /\ dz = NoReader
    /\ rawfile = << >>
    /\ raw = NoReader
    /\ indexfile = << >>
    /\ index = NoIndex
    /\ dictkind = "dz"
    /\ result = NoCall
    /\ ioops = << >>

CompressedNew ==
    /\ result = NoCall
    /\ dz = NoReader
    /\ LET made == Compressed_new(dzfile)
       IN  /\ dz' = made.reader
           /\ result' = [op |-> "Compressed::new", res |-> made.res]
    /\ ioops' = << >>
    /\ UNCHANGED <<overflow_checks, content, wellformed, dzfile, rawfile, raw,
                   indexfile, index, dictkind>>

CompressedFetch(offset, size) ==
    /\ dz.open
    /\ LET got == Compressed_fetch_definition(dz, dzfile, offset, size)
       IN  /\ dz' = [dz EXCEPT !.pos = got.pos]
           /\ result' = [op |-> "Compressed::fetch_definition", offset |-> offset,
                         size |-> size, pos_before |-> dz.pos, res |-> got.res]
           /\ ioops' = got.ops
    /\ UNCHANGED <<overflow_checks, content, wellformed, dzfile, rawfile, raw,
                   indexfile, index, dictkind>>

NextDz ==
    \/ CompressedNew
    \/ \E offset \in Offsets, size \in Sizes : CompressedFetch(offset, size)

SpecDz == InitDz /\ [][NextDz]_vars

(***************************************************************************)
(* The plain reader on its own.                                            *)
(***************************************************************************)
InitRaw ==
    /\ overflow_checks \in BOOLEAN
    /\ content \in Texts
    /\ wellformed = TRUE
    /\ dzfile = << >>
    /\ dz = NoReader
    /\ rawfile = content
    /\ raw = NoReader
    /\ indexfile = << >>
    /\ index = NoIndex
    /\ dictkind = "raw"
    /\ result = NoCall
    /\ ioops = << >>

UncompressedNew ==
    /\ result = NoCall
    /\ raw = NoReader
    /\ raw' = Uncompressed_new(rawfile)
    /\ result' = [op |-> "Uncompressed::new", res |-> Ok(<< >>)]
    /\ ioops' = <<"seek">>
    /\ UNCHANGED <<overflow_checks, content, wellformed, dzfile, dz, rawfile,
                   indexfile, index, dictkind>>

UncompressedFetch(offset, size) ==
    /\ raw.open
    /\ LET got == Uncompressed_fetch_definition(raw, rawfile, offset, size)
       IN  /\ raw' = [raw EXCEPT !.pos = got.pos]
           /\ result' = [op |-> "Uncompressed::fetch_definition", offset |-> offset,
                         size |-> size, pos_before |-> raw.pos, res |-> got.res]
           /\ ioops' = got.ops
    /\ UNCHANGED <<overflow_checks, content, wellformed, dzfile, dz, rawfile,
                   indexfile, index, dictkind>>

NextRaw ==
    \/ UncompressedNew
    \/ \E offset \in Offsets, size \in Sizes : UncompressedFetch(offset, size)

SpecRaw == InitRaw /\ [][NextRaw]_vars

(***************************************************************************)
(* Either reader on its own.                                               *)
(***************************************************************************)
NextReaders ==
    \/ dictkind = "dz" /\ NextDz
    \/ dictkind = "raw" /\ NextRaw

SpecReaders == (InitDz \/ InitRaw) /\ [][NextReaders]_vars

(***************************************************************************)
(* Index files and queries the model draws.                                *)
(***************************************************************************)
\* The longest run of equal headwords in an index file.
MaxRun == 3

\* The base-64 digit of n < 64 (the table of get_base read backwards).
Digit(n) ==
    IF n < 26 THEN 65 + n ELSE IF n < 52 THEN 71 + n
    ELSE IF n < 62 THEN n - 4 ELSE IF n = 62 THEN 43 ELSE 47

\* One line of an index file.
Line(word, offset, size) ==
    word \o <<9, Digit(offset), 9, Digit(size), 10>>

\* Lines for <<headword, offset, size>> triples.
RECURSIVE Lines(_)
Lines(es) ==
    IF es = << >> THEN << >>
    ELSE Line(es[1][1], es[1][2], es[1][3]) \o Lines(Tail(es))

\* Headwords laid out one byte apart, entry i at offset i + 1.
Placed(words) == [i \in 1..Len(words) |-> <<words[i], i + 1, 1>>]

\* The headwords and queries of the model.
Word ==
    [a |-> <<97>>,                  \* "a"
     b |-> <<98>>,                  \* "b"
     c |-> <<99>>,                  \* "c"
     i |-> <<105>>,                 \* "i"
     B |-> <<66>>,                  \* "B"
     ba |-> <<98, 97>>,             \* "ba"
     Ba |-> <<66, 97>>,             \* "Ba"
     b_a |-> <<98, 45, 97>>,        \* "b-a"
     bas |-> <<98, 97, 32>>,        \* "ba "
     be |-> <<98, 101>>,            \* "be"
     bee |-> <<98, 233>>,           \* "b" U+00E9
     bs |-> <<98, 115>>,            \* "bs"
     bss |-> <<98, 115, 115>>,      \* "bss"
     bsz |-> <<98, 223>>,           \* "b" U+00DF
     I |-> <<304>>,                 \* U+0130
     ii |-> <<105, 775>>,           \* "i" U+0307
     sb |-> <<32, 98>>,             \* " b"
     x |-> <<120>>,                 \* "x"
     zz |-> <<48, 48, 55>>]         \* "007"

\* The metadata lines for a set of flags, in alphabetical order.
Header(flags) ==
    (IF "allchars" \in flags
     THEN Line(Prefix00Database \o <<97, 108, 108, 99, 104, 97, 114, 115>>, 0, 0)
     ELSE << >>)
    \o (IF "case" \in flags
     THEN Line(Prefix00Database \o <<99, 97, 115, 101, 45, 115, 101, 110, 115, 105,
                                     116, 105, 118, 101>>, 0, 0)
     ELSE << >>)
    \o (IF "dictfmt" \in flags
     THEN Line(Prefix00Database \o <<100, 105, 99, 116, 102, 109, 116, 45, 49, 46,
                                     49, 50, 46, 49>>, 0, 0)
     ELSE << >>)
    \o (IF "info" \in flags
     THEN Line(Prefix00Database \o <<105, 110, 102, 111>>, 0, 4) ELSE << >>)
    \o (IF "url" \in flags
     THEN Line(Prefix00Database \o <<117, 114, 108>>, 6, 3) ELSE << >>)

WordLists ==
    { <<Word.a>> \o [i \in 1..MaxRun |-> Word.b],
      <<Word.b, Word.b, Word.c>>,
      <<Word.Ba, Word.b_a, Word.ba>>,
      <<Word.a, Word.bss, Word.bsz>>,
      <<Word.bas, Word.be, Word.bee>>,
      <<Word.b, Word.i>>,
      <<Word.c, Word.a, Word.b>>,
      <<Word.zz, Word.a, Word.b>>,
      <<Word.b, Word.a, Word.b>>,
      <<Word.B, Word.a>>,
      << >> }

\* A fourth column; a line with two columns; a digit outside the alphabet.
FourColumns == Word.ba \o <<9, 65, 9, 66, 9>> \o <<66, 45, 97, 33, 10>>
TwoColumns == Line(Word.a, 2, 1) \o Word.b \o <<9, 65, 10>>
BadDigit == Line(Word.a, 2, 1) \o Word.b \o <<9, 33, 9, 66, 10>>

FlagSets3 == SUBSET {"allchars", "case", "dictfmt"}

\* The section names of metadata headwords, and two the parser does not know.
Section ==
    [info |-> <<105, 110, 102, 111>>,                              \* "info"
     short |-> <<115, 104, 111, 114, 116>>,                        \* "short"
     url |-> <<117, 114, 108>>,                                    \* "url"
     allchars |-> <<97, 108, 108, 99, 104, 97, 114, 115>>,         \* "allchars"
     case |-> <<99, 97, 115, 101>>,                                \* "case"
     dictfmt |-> <<100, 105, 99, 116, 102, 109, 116>>,             \* "dictfmt"
     dictfmt_case |-> <<100, 105, 99, 116, 102, 109, 116, 45, 99, 97, 115, 101>>,
     utf8 |-> <<117, 116, 102, 56>>,                               \* "utf8"
     dash_info |-> <<45, 105, 110, 102, 111>>]                     \* "-info"

\* Index files around their metadata lines: an entry line in front of them
\* and metadata lines behind the first entry line that follows them; the
\* headwords without the dash; a section name with "dictfmt" and "case";
\* an unknown section, "info" twice and "00database-info".
MetadataFiles ==
    { Line(Word.a, 2, 1)
        \o Line(Prefix00Database \o Section.dictfmt, 0, 0)
        \o Line(Prefix00Database \o Section.info, 0, 4)
        \o Line(Word.b, 3, 1)
        \o Line(Prefix00Database \o Section.allchars, 0, 0)
        \o Line(Prefix00Database \o Section.url, 6, 3)
        \o Line(Word.c, 4, 1),
      Line(Prefix00database \o Section.allchars, 0, 0)
        \o Line(Prefix00database \o Section.case, 0, 0)
        \o Line(Prefix00database \o Section.dictfmt, 0, 0)
        \o Line(Prefix00database \o Section.info, 1, 2)
        \o Line(Prefix00database \o Section.short, 2, 1)
        \o Line(Prefix00database \o Section.url, 3, 1)
        \o Line(Word.b, 3, 1),
      Line(Prefix00Database \o Section.dictfmt_case, 0, 0)
        \o Lines(Placed(<<Word.Ba, Word.b_a>>)),
      Line(Prefix00Database \o Section.utf8, 0, 0)
        \o Line(Prefix00Database \o Section.info, 0, 4)
        \o Line(Prefix00Database \o Section.info, 2, 1)
        \o Line(Prefix00database \o Section.dash_info, 5, 1)
        \o Lines(Placed(<<Word.B, Word.b>>)) }

IndexFiles ==
    { Header(f) \o Lines(Placed(ws)) : f \in FlagSets3, ws \in WordLists }
    \cup { Header(f) \o body : f \in {{}, {"dictfmt"}},
                                body \in {FourColumns, TwoColumns, BadDigit,
                                         Line(Word.a, 2, 1) \o Word.b
                                             \o <<9, 66, 9, 33, 10>>,
                                         Line(Word.a, 2, 1) \o Word.b \o <<9>>
                                             \o [j \in 1..11 |-> 65]
                                             \o <<66, 9, 66, 10>>} }
    \cup MetadataFiles

Queries ==
    {Word.b, Word.B, Word.ba, Word.Ba, Word.b_a, Word.bsz, Word.bss, Word.bs,
     Word.bee, Word.I, Word.ii, Word.sb, Word.x}

(***************************************************************************)
(* The index on its own: Index::new, then any number of find calls.        *)
(***************************************************************************)
InitIndex ==
    /\ overflow_checks \in BOOLEAN
    /\ content = << >>
    /\ wellformed = TRUE
    /\ dzfile = << >>
    /\ dz = NoReader
    /\ rawfile = << >>
    /\ raw = NoReader
    /\ indexfile \in IndexFiles
    /\ index = NoIndex
    /\ dictkind = "none"
    /\ result = NoCall
    /\ ioops = << >>

IndexNew ==
    /\ result = NoCall
    /\ ~index.open
    /\ LET made == Index_new(indexfile)
       IN  /\ index' = made.index
           /\ result' = [op |-> "Index::new", res |-> made.res]
    /\ UNCHANGED <<overflow_checks, content, wellformed, dzfile, dz, rawfile, raw,
                   indexfile, dictkind, ioops>>

Find(headword, fuzzy, relaxed) ==
    /\ index.open
    /\ \E pivot \in Pivots(index, indexfile, headword, fuzzy, relaxed) :
          LET found == Index_find(index, indexfile, headword, fuzzy, relaxed, pivot)
          IN  /\ index' = found.index
              /\ result' = [op |-> "Index::find", word |-> headword,
                            fuzzy |-> fuzzy, relaxed |-> relaxed,
                            pivot |-> pivot, was_loaded |-> index.loaded,
                            pos_before |-> index.pos, res |-> found.res]
    /\ UNCHANGED <<overflow_checks, content, wellformed, dzfile, dz, rawfile, raw,
                   indexfile, dictkind, ioops>>

NextIndex ==
    \/ IndexNew
    \/ \E headword \in Queries, fuzzy \in BOOLEAN, relaxed \in BOOLEAN :
          Find(headword, fuzzy, relaxed)

SpecIndex == InitIndex /\ [][NextIndex]_vars

(***************************************************************************)
(* The dictionary as a whole: Dict::from_file on a content file and an     *)
(* index file, then any number of lookups.                                 *)
(***************************************************************************)
\* "i", newline, "xy", U+00DF in UTF-8, "z"
DictContent == <<105, 10, 120, 121, 195, 159, 122>>

\* Ranges of DictContent holding whole chars: "x", "y", U+00DF, "xy".
GoodLocations == <<<<2, 1>>, <<3, 1>>, <<4, 2>>, <<2, 2>>>>

Located(words) ==
    [i \in 1..Len(words) |->
        LET at == GoodLocations[((i - 1) % Len(GoodLocations)) + 1]
        IN  <<words[i], at[1], at[2]>>]

\* The last two lists hold a range that cuts U+00DF in two, and a range that
\* ends behind the content.
DictLists ==
    { Located(<<Word.a>> \o [i \in 1..MaxRun |-> Word.b]),
      Located(<<Word.Ba, Word.b_a, Word.ba>>),
      Located(<<Word.bss, Word.bsz>>),
      <<<<Word.b, 2, 1>>, <<Word.b, 4, 1>>>>,
      <<<<Word.b, 6, 2>>>> }

\* Where the index puts the short name: "i", "i" and the newline, the
\* newline, the newline and "x", "xy", "i", the newline and "xy", and a range
\* that cuts U+00DF in two.
ShortNameLocations ==
    {<<0, 1>>, <<0, 2>>, <<1, 1>>, <<1, 2>>, <<2, 2>>, <<0, 4>>, <<0, 5>>}

DictIndexFiles ==
    { Header(f) \o Lines(es) :
        f \in {{}, {"dictfmt"}, {"info"}, {"dictfmt", "info"}, {"case", "dictfmt"},
               {"info", "url"}},
        es \in DictLists }
    \cup { Header(f) \o body : f \in {{}, {"dictfmt"}},
                                body \in {FourColumns, TwoColumns, BadDigit,
                                         Line(Word.a, 2, 1) \o Word.b
                                             \o <<9, 66, 9, 33, 10>>,
                                         Line(Word.a, 2, 1) \o Word.b \o <<9>>
                                             \o [j \in 1..11 |-> 65]
                                             \o <<66, 9, 66, 10>>} }
    \cup { Line(Prefix00Database \o <<115, 104, 111, 114, 116>>, at[1], at[2])
           \o Lines(Located(<<Word.b>>)) : at \in ShortNameLocations }

DictQueries == {Word.b, Word.B, Word.ba, Word.b_a, Word.bss, Word.I, Word.x}

\* Dict::from_file: [res, reader, index].  The extension of the content
\* file decides the reader: kind is "dz" for a path ending in .dz.
Dict_from_file(kind, buf, text) ==
    LET made(r, full) ==
            IF ~IsOk(full.res)
            THEN [res |-> full.res, reader |-> NoReader, index |-> NoIndex]
            ELSE [res |-> Ok(<< >>), reader |-> [r EXCEPT !.pos = full.pos],
                  index |-> full.index]
        opened(r) == made(r, Index_new_full(text, kind, r, buf))
        compressed(new) ==
            IF ~IsOk(new.res)
            THEN [res |-> new.res, reader |-> NoReader, index |-> NoIndex]
            ELSE opened(new.reader)
    IN  IF kind = "dz" THEN compressed(Compressed_new(buf))
        ELSE opened(Uncompressed_new(buf))

Init ==
    /\ overflow_checks \in BOOLEAN
    /\ content = DictContent
    /\ wellformed = TRUE
    /\ dictkind \in {"dz", "raw"}
    /\ dzfile = IF dictkind = "dz" THEN DzFile(content, MaxChunkLen, GZ_FEXTRA) ELSE << >>
    /\ dz = NoReader
    /\ rawfile = IF dictkind = "raw" THEN content ELSE << >>
    /\ raw = NoReader
    /\ indexfile \in DictIndexFiles
    /\ index = NoIndex
    /\ result = NoCall
    /\ ioops = << >>

DictFile == IF dictkind = "dz" THEN dzfile ELSE rawfile
DictReader == IF dictkind = "dz" THEN dz ELSE raw

DictFromFile ==
    /\ result = NoCall
    /\ ~index.open
    /\ LET made == Dict_from_file(dictkind, DictFile, indexfile)
       IN  /\ index' = made.index
           /\ dz' = IF dictkind = "dz" THEN made.reader ELSE dz
           /\ raw' = IF dictkind = "raw" THEN made.reader ELSE raw
           /\ result' = [op |-> "Dict::from_file", res |-> made.res]
    /\ ioops' = << >>
    /\ UNCHANGED <<overflow_checks, content, wellformed, dzfile, rawfile,
                   indexfile, dictkind>>

DictLookup(word, fuzzy, relaxed) ==
    /\ index.open
    /\ \E pivot \in Pivots(index, indexfile, word, fuzzy, relaxed) :
          LET out == Dict_lookup(index, indexfile, dictkind, DictReader, DictFile,
                                 word, fuzzy, relaxed, pivot)
          IN  /\ index' = out.index
              /\ dz' = IF dictkind = "dz" THEN [dz EXCEPT !.pos = out.pos] ELSE dz
              /\ raw' = IF dictkind = "raw" THEN [raw EXCEPT !.pos = out.pos] ELSE raw
              /\ result' = [op |-> "Dict::lookup", word |-> word, fuzzy |-> fuzzy,
                            relaxed |-> relaxed, pivot |-> pivot, res |-> out.res]
    /\ ioops' = << >>
    /\ UNCHANGED <<overflow_checks, content, wellformed, dzfile, rawfile,
                   indexfile, dictkind>>

Next ==
    \/ DictFromFile
    \/ \E word \in DictQueries, fuzzy \in BOOLEAN, relaxed \in BOOLEAN :
          DictLookup(word, fuzzy, relaxed)

Spec == Init /\ [][Next]_vars

(***************************************************************************)
(* decode_number on its own: one call on a digit string.                   *)
(***************************************************************************)
\* The longest run of 'A' digits before and after the digits of a string.
MaxPad == 11

\* The digit strings the model draws: strings of the tests and single
\* digits, between runs of 'A'.  "*" is no digit.
DigitStrings ==
    LET As(k) == [j \in 1..k |-> 65]
        mids == { << >>, <<66>>, <<80>>, <<81>>, <<47>>, <<90>>, <<97>>, <<122>>,
                  <<48>>, <<57>>, <<43>>, <<99>>, <<77>>, <<109>>,
                  <<51, 87, 47>>,             \* "3W/"
                  <<51, 102, 87, 50>>,        \* "3fW2"
                  <<47, 47, 47, 47, 47>>,     \* "/////"
                  <<42>> }                    \* "*"
    IN  { As(k) \o mid \o As(m) : k \in 0..MaxPad, m \in 0..MaxPad, mid \in mids }

InitDecode ==
    /\ overflow_checks \in BOOLEAN
    /\ content = << >>
    /\ wellformed = TRUE
    /\ dzfile = << >>
    /\ dz = NoReader
    /\ rawfile = << >>
    /\ raw = NoReader
    /\ indexfile \in DigitStrings
    /\ index = NoIndex
    /\ dictkind = "none"
    /\ result = NoCall
    /\ ioops = << >>

\* decode_number(&Context::default(), s) for the string s drawn.
DecodeNumber ==
    /\ result = NoCall
    /\ result' = [op |-> "decode_number",
                  res |-> decode_number([line |-> 0, pos |-> 0], indexfile)]
    /\ UNCHANGED <<overflow_checks, content, wellformed, dzfile, dz, rawfile, raw,
                   indexfile, index, dictkind, ioops>>

NextDecode == DecodeNumber

SpecDecode == InitDecode /\ [][NextDecode]_vars

(***************************************************************************)
(* MmapCursor (mmap/mod.rs) on its own: a cursor over the bytes of a       *)
(* mapped file, moved by seek and read.  The bytes are in rawfile and the  *)
(* cursor in raw.  A position is a u64 (2^64 - 1 is written -1); the       *)
(* offset of SeekFrom::Current and SeekFrom::End is an i64.                *)
(***************************************************************************)
\* The largest position below 2^63 and the largest offset, to either side,
\* that the model draws.
MaxPos == 6
MaxSeek == 3

InvalidInput == [error |-> "IoError", io |-> "InvalidInput"]
LockFailed == [error |-> "IoError", io |-> "lock"]

\* MmapCursor::from_file: the cursor at position 0.
MmapCursor_from_file(bytes) == [open |-> TRUE, pos |-> 0]

\* io::Seek::seek: [res, pos].  locked says whether the shared lock on the
\* file was obtained.
MmapCursor_seek(cur, bytes, from, n, locked) ==
    LET base_pos == IF from = "End" THEN Len(bytes) ELSE cur.pos
        \* offset as u64 for offset >= 0, offset.unsigned_abs() below 0
        added == IF n >= 0 THEN n ELSE -n
    IN  IF ~locked THEN [res |-> Err(LockFailed), pos |-> cur.pos]
        ELSE IF from = "Start" THEN [res |-> Ok(n), pos |-> n]
        ELSE IF U64AddOverflows(base_pos, added)
        THEN [res |-> Err(InvalidInput), pos |-> cur.pos]
        ELSE [res |-> Ok(base_pos + added), pos |-> base_pos + added]

\* io::Read::read into a buffer of size bytes: [res, pos], res the bytes
\* read from remaining_slice.
MmapCursor_read(cur, bytes, size, locked) ==
    LET len == IF U64Lt(cur.pos, Len(bytes)) THEN cur.pos ELSE Len(bytes)
        count == Min(size, Len(bytes) - len)
    IN  IF ~locked THEN [res |-> Err(LockFailed), pos |-> cur.pos]
        ELSE [res |-> Ok(Slice(bytes, len, len + count)), pos |-> cur.pos + count]

\* The arguments of seek: Start with a u64, Current and End with an i64.
SeekTargets ==
    {<<"Start", n>> : n \in 0..MaxPos \cup {-1, -2}}
    \cup {<<from, n>> : from \in {"Current", "End"}, n \in (0 - MaxSeek)..MaxSeek}

InitMmap ==
    /\ overflow_checks \in BOOLEAN
    /\ content = << >>
    /\ wellformed = TRUE
    /\ dzfile = << >>
    /\ dz = NoReader
    /\ rawfile \in {SubSeq(BaseText, 1, n) : n \in 0..MaxTextLen}
    /\ raw = MmapCursor_from_file(rawfile)
    /\ indexfile = << >>
    /\ index = NoIndex
    /\ dictkind = "mmap"
    /\ result = NoCall
    /\ ioops = << >>

MmapSeek(from, n, locked) ==
    /\ LET made == MmapCursor_seek(raw, rawfile, from, n, locked)
       IN  /\ made.pos <= MaxPos
           /\ raw' = [raw EXCEPT !.pos = made.pos]
           /\ result' = [op |-> "MmapCursor::seek", from |-> from, n |-> n,
                         locked |-> locked, pos_before |-> raw.pos,
                         res |-> made.res]
    /\ ioops' = << >>
    /\ UNCHANGED <<overflow_checks, content, wellformed, dzfile, dz, rawfile,
                   indexfile, index, dictkind>>

MmapRead(size, locked) ==
    /\ LET got == MmapCursor_read(raw, rawfile, size, locked)
       IN  /\ raw' = [raw EXCEPT !.pos = got.pos]
           /\ result' = [op |-> "MmapCursor::read", size |-> size,
                         locked |-> locked, pos_before |-> raw.pos,
                         res |-> got.res]
    /\ ioops' = << >>
    /\ UNCHANGED <<overflow_checks, content, wellformed, dzfile, dz, rawfile,
                   indexfile, index, dictkind>>

NextMmap ==
    \/ \E target \in SeekTargets, locked \in BOOLEAN :
          MmapSeek(target[1], target[2], locked)
    \/ \E size \in 0..MaxSize, locked \in BOOLEAN : MmapRead(size, locked)

SpecMmap == InitMmap /\ [][NextMmap]_vars

(***************************************************************************)
(* What the claims speak of.                                               *)
(***************************************************************************)
\* offset + size > n as numbers, for u64 values offset, size and n
Hi(x) == IF x < 0 THEN 1 ELSE 0
SumExceeds(offset, size, n) ==
    \/ Hi(offset) + Hi(size) > Hi(n)
    \/ Hi(offset) + Hi(size) = Hi(n) /\ offset + size > n

\* the bytes [offset, offset + size) of the whole text
Range(text, offset, size) == Slice(text, offset, offset + size)

DzFetched == result.op = "Compressed::fetch_definition"
RawFetched == result.op = "Uncompressed::fetch_definition"
DzOpened == result.op = "Compressed::new"

\* C1: from a well-formed dictzip file, every range with size <= MAX_DEF and
\* offset + size <= ufile_length is fetched as exactly those bytes of the
\* decompressed text (where they are UTF-8), wherever the range lies.
C1_SpliceInvariance ==
    (/\ DzFetched
     /\ wellformed
     /\ U64Le(result.size, MAX_BYTES_FOR_BUFFER)
     /\ ~SumExceeds(result.offset, result.size, dz.ufile_length)
     /\ ValidUtf8(Range(content, result.offset, result.size)))
    => result.res = Ok(Range(content, result.offset, result.size))

\* C2: the plain reader returns Ok with the bytes of the range exactly when
\* size <= MAX_DEF, offset + size <= N and the bytes are UTF-8; MemoryError
\* when size > MAX_DEF; UnexpectedEof when size <= MAX_DEF and offset + size > N.
C2_UncompressedFetch ==
    RawFetched =>
        LET fits == /\ U64Le(result.size, MAX_BYTES_FOR_BUFFER)
                    /\ ~SumExceeds(result.offset, result.size, Len(rawfile))
        IN  /\ result.res.kind = "Ok"
                <=> (fits /\ ValidUtf8(Range(rawfile, result.offset, result.size)))
            /\ result.res.kind = "Ok"
                => result.res.val = Range(rawfile, result.offset, result.size)
            /\ ~U64Le(result.size, MAX_BYTES_FOR_BUFFER)
                => result.res = Err(MemoryError)
            /\ (/\ U64Le(result.size, MAX_BYTES_FOR_BUFFER)
                /\ SumExceeds(result.offset, result.size, Len(rawfile)))
                => result.res = Err(UnexpectedEof)

\* C3: the dictzip reader answers size > MAX_DEF with MemoryError and otherwise
\* offset + size > ufile_length with UnexpectedEof, in both cases without any
\* seek, read, inflate or allocation and with its position unchanged.
C3_RejectsBeforeTouchingFile ==
    DzFetched =>
        /\ ~U64Le(result.size, MAX_BYTES_FOR_BUFFER)
            => /\ result.res = Err(MemoryError)
               /\ ioops = << >>
               /\ dz.pos = result.pos_before
        /\ (/\ U64Le(result.size, MAX_BYTES_FOR_BUFFER)
            /\ SumExceeds(result.offset, result.size, dz.ufile_length))
            => /\ result.res = Err(UnexpectedEof)
               /\ ioops = << >>
               /\ dz.pos = result.pos_before

\* The header checks of the dictzip format, on a file that holds the fixed
\* header and the XLEN bytes of its FEXTRA field.
HeaderCheckFails(f) ==
    /\ Len(f) >= 12
    /\ \/ Slice(f, 0, 2) # <<31, 139>>
       \/ ~HasFlag(f[4], GZ_FEXTRA)
       \/ LET xlen == ReadU16(f, 10)
          IN  /\ Len(f) >= 12 + xlen
              /\ \/ xlen < 10
                 \/ Slice(f, 12, 14) # <<82, 65>>
                 \/ ReadU16(f, 14) # xlen - 4
                 \/ ReadU16(f, 16) # 1
                 \/ ReadU16(f, 20) = 0
                 \/ ReadU16(f, 20) # (xlen - 10) \div 2

\* C9: whenever a header check fails, Compressed::new returns
\* Err(InvalidFileFormat): no panic, no other error, no reader.
C9_HeaderValidation ==
    (DzOpened /\ HeaderCheckFails(dzfile))
    => (result.res = Err(InvalidFileFormat) /\ dz = NoReader)

\* C10: a file whose first two bytes are not 1F 8B is rejected with
\* InvalidFileFormat whatever its length.
C10_WrongMagic ==
    (DzOpened /\ Len(dzfile) >= 2 /\ Slice(dzfile, 0, 2) # <<31, 139>>)
    => result.res = Err(InvalidFileFormat)

(***************************************************************************)
(* What the claims about the index and the dictionary speak of.            *)
(***************************************************************************)
Found == result.op = "Index::find" /\ index.loaded
LookedUp == result.op = "Dict::lookup" /\ index.loaded

\* The query of the last call as find compares it.
LastQuery == Query(index.metadata, result.word)

\* The entries are in the order the binary search relies on.
SortedBy(key(_)) ==
    \A i, j \in 1..Len(index.entries) :
        i < j => Cmp(key(index.entries[i]), key(index.entries[j])) <= 0

Stored(entry) == entry.headword
Transliterated(entry) == unidecode(entry.headword)
TransliteratedTrimmed(entry) == trim(unidecode(entry.headword))

\* a and b are at most one insertion, deletion or substitution apart.
Without(s, k) == SubSeq(s, 1, k - 1) \o SubSeq(s, k + 1, Len(s))

WithinOneEdit(a, b) ==
    \/ a = b
    \/ /\ Len(a) = Len(b)
       /\ \E k \in 1..Len(a) : \A j \in 1..Len(a) : j # k => a[j] = b[j]
    \/ /\ Len(a) = Len(b) + 1
       /\ \E k \in 1..Len(a) : Without(a, k) = b
    \/ /\ Len(b) = Len(a) + 1
       /\ \E k \in 1..Len(b) : Without(b, k) = a

\* The answer of a find that returns exactly the entries satisfying keep, in
\* index order, and WordNotFound when there are none.
Answer(keep(_)) ==
    IF SelectSeq(index.entries, keep) = << >> THEN Err(WordNotFound(LastQuery))
    ELSE Ok(SelectSeq(index.entries, keep))

\* C4: an exact, non-relaxed find on a sorted index returns every entry whose
\* stored headword equals the normalized, trimmed query, the whole run of
\* duplicates in index order, and WordNotFound exactly when there is none.
C4_ExactFindWholeRun ==
    (Found /\ ~result.fuzzy /\ ~result.relaxed /\ SortedBy(Stored))
        => LET same(entry) == entry.headword = LastQuery
           IN  result.res = Answer(same)

\* C5 as stated: a fuzzy find returns exactly the entries within Levenshtein
\* distance 1 of the normalized query, the distance taken against the
\* transliterated headword when relaxed, and WordNotFound when there are none.
C5_FuzzyAgainstTransliteration ==
    (Found /\ result.fuzzy)
        => LET near(entry) ==
                   WithinOneEdit(LastQuery, IF result.relaxed THEN Transliterated(entry)
                                            ELSE Stored(entry))
           IN  result.res = Answer(near)

\* C5: a fuzzy find returns exactly the entries within Levenshtein distance 1
\* of the normalized query, the distance taken against the transliterated
\* headword with the white space at its ends trimmed when relaxed, and
\* WordNotFound when there are none.
C5_FuzzyWithinOneEdit ==
    (Found /\ result.fuzzy)
        => LET near(entry) ==
                   WithinOneEdit(LastQuery, IF result.relaxed
                                            THEN TransliteratedTrimmed(entry)
                                            ELSE Stored(entry))
           IN  result.res = Answer(near)

\* A relaxed fuzzy find has returned an entry one edit away from the query
\* whose headword is not its own transliteration.
C5_Witness ==
    /\ Found /\ result.fuzzy /\ result.relaxed
    /\ result.res.kind = "Ok"
    /\ \E k \in 1..Len(result.res.val) :
          /\ Transliterated(result.res.val[k]) # Stored(result.res.val[k])
          /\ TransliteratedTrimmed(result.res.val[k]) # LastQuery
    /\ Len(result.res.val) < Len(index.entries)

\* C6: a relaxed exact find on an index sorted by transliteration returns
\* every entry whose transliterated headword equals the transliterated query,
\* whether or not the query itself holds diacritics.
C6_RelaxedBothSides ==
    (Found /\ ~result.fuzzy /\ result.relaxed /\ SortedBy(TransliteratedTrimmed))
        => \A i \in 1..Len(index.entries) :
              unidecode(LastQuery) = Transliterated(index.entries[i])
                  => /\ result.res.kind = "Ok"
                     /\ \E k \in 1..Len(result.res.val) :
                           result.res.val[k] = index.entries[i]

\* What lookup shows for an entry whose definition can be fetched.
Shown(entry) == IF entry.original.some THEN entry.original.val ELSE entry.headword

Fetched(entry) == fetch_definition(dictkind, DictReader, DictFile, entry.location).res

AllFetchable == \A i \in 1..Len(index.entries) : IsOk(Fetched(index.entries[i]))

\* Every answer lookup(word, false, false) can give in the current state.
Lookups(word) ==
    { Dict_lookup(index, indexfile, dictkind, DictReader, DictFile,
                  word, FALSE, FALSE, pivot).res :
        pivot \in Pivots(index, indexfile, word, FALSE, FALSE) }

\* C7: with neither case-sensitive nor allchars in the index, lookup(w) and
\* lookup(lowercase(w)) give the same answers, and every entry whose headword
\* normalizes to the normalized query is returned by both.
C7_CaseInsensitive ==
    (/\ LookedUp /\ ~result.fuzzy /\ ~result.relaxed
     /\ ~index.metadata.case_sensitive /\ ~index.metadata.all_chars
     /\ SortedBy(Stored) /\ AllFetchable)
        => /\ Lookups(result.word) = Lookups(to_lowercase(result.word))
           /\ \A i \in 1..Len(index.entries) :
                 normalize_headword(index.entries[i].headword, index.metadata) = LastQuery
                     => \A out \in {result.res} \cup Lookups(to_lowercase(result.word)) :
                           /\ out.kind = "Ok"
                           /\ \E k \in 1..Len(out.val) :
                                 out.val[k] =
                                     [headword |-> Shown(index.entries[i]),
                                      definition |-> Fetched(index.entries[i]).val]

\* C8: lookup returns one result per entry find returns, in the same order,
\* each with the original headword when the entry has one and the headword
\* otherwise, and with the definition fetched for the entry; an error of find
\* or of a fetch is returned as it is, with no partial list.
C8_LookupResults ==
    result.op = "Dict::lookup"
        => LET found == Index_find(index, indexfile, result.word, result.fuzzy,
                                   result.relaxed, result.pivot).res
               bad == {i \in 1..Len(found.val) : ~IsOk(Fetched(found.val[i]))}
               first == CHOOSE i \in bad : \A j \in bad : i <= j
           IN  IF ~IsOk(found) THEN result.res = found
               ELSE IF bad # {} THEN result.res = Fetched(found.val[first])
               ELSE /\ result.res.kind = "Ok"
                    /\ Len(result.res.val) = Len(found.val)
                    /\ \A i \in 1..Len(found.val) :
                          result.res.val[i] =
                              [headword |-> Shown(found.val[i]),
                               definition |-> Fetched(found.val[i]).val]

\* A lookup has returned several results, one of them under an original
\* headword that differs from the stored one.
C8_Witness ==
    /\ LookedUp
    /\ result.res.kind = "Ok"
    /\ Len(result.res.val) >= 2
    /\ \E i \in 1..Len(index.entries), k \in 1..Len(result.res.val) :
          /\ index.entries[i].original.some
          /\ result.res.val[k].headword = index.entries[i].original.val
          /\ result.res.val[k].headword # index.entries[i].headword

(***************************************************************************)
(* Base-64 numbers.                                                        *)
(***************************************************************************)
\* The digits in the order of their values 0..63.
Alphabet ==
    [k \in 1..26 |-> 64 + k] \o [k \in 1..26 |-> 96 + k]
    \o [k \in 1..10 |-> 47 + k] \o <<43, 47>>

OverAlphabet(s) == \A j \in 1..Len(s) : \E k \in 1..64 : Alphabet[k] = s[j]
DigitValue(c) == (CHOOSE k \in 1..64 : Alphabet[k] = c) - 1

RECURSIVE lstrip_A(_)
lstrip_A(s) == IF s # << >> /\ s[1] = 65 THEN lstrip_A(Tail(s)) ELSE s

\* The value of the string is below 2^64.
FitsU64(s) ==
    LET t == lstrip_A(s)
    IN  Len(t) <= 10 \/ (Len(t) = 11 /\ DigitValue(t[1]) < 16)

\* The value of a string that fits, limb k being the digit of 64^(k-1).
Positional(s) ==
    LET t == lstrip_A(s)
    IN  [k \in 1..11 |-> IF k <= Len(t) THEN DigitValue(t[Len(t) + 1 - k]) ELSE 0]

\* sum of digit(c_i) * 64^(L-1-i) over i = 0..L-1, for a string of at most
\* five digits.
RECURSIVE SumFrom(_, _)
SumFrom(s, i) ==
    IF i >= Len(s) THEN 0
    ELSE DigitValue(s[i + 1]) * 64^(Len(s) - 1 - i) + SumFrom(s, i + 1)

\* encode: the digits of a number, the highest first, none for 0.
encode(limbs) ==
    LET used == {k \in 1..11 : limbs[k] # 0}
        high == IF used = {} THEN 0 ELSE CHOOSE k \in used : \A j \in used : j <= k
    IN  [j \in 1..high |-> Alphabet[limbs[high + 1 - j] + 1]]

RECURSIVE EncodeInt(_)
EncodeInt(n) ==
    IF n = 0 THEN << >> ELSE Append(EncodeInt(n \div 64), Alphabet[(n % 64) + 1])

Decoded == result.op = "decode_number"

\* The values the specification names.
DecodeExamples ==
    { <<(<<65>>), 0>>, <<(<<90>>), 25>>, <<(<<97>>), 26>>, <<(<<122>>), 51>>,
      <<(<<48>>), 52>>, <<(<<57>>), 61>>, <<(<<43>>), 62>>, <<(<<47>>), 63>>,
      <<(<<99>>), 28>>, <<(<<51, 87, 47>>), 226751>>,
      <<(<<51, 102, 87, 50>>), 14546358>>, <<(<< >>), 0>> }

\* C11: decode_number maps every string over the alphabet (whose value is a
\* u64) to the sum of digit(c_i) * 64^(L-1-i); the empty string decodes to
\* 0, and the strings the specification names decode to the values it names.
C11_DecodeValue ==
    Decoded /\ OverAlphabet(indexfile) /\ FitsU64(indexfile)
        => /\ result.res = Ok(Positional(indexfile))
           /\ Len(indexfile) <= 5
                => U64Of(result.res.val) = SumFrom(indexfile, 0)
           /\ \A e \in DecodeExamples :
                indexfile = e[1] => U64Of(result.res.val) = e[2]

\* The numbers whose encodings the model draws.
RoundTripNumbers ==
    {0, 1, 12, 25, 26, 63, 64, 4096, 226751, 14546358, 16777216, 1073741823}

\* C12: decode(encode(n)) = n for the numbers below 2^40, and for every
\* string of digits (whose value is a u64) decode succeeds and
\* encode(decode(s)) is s without its leading 'A's, however many they are.
C12_RoundTrip ==
    Decoded /\ OverAlphabet(indexfile) /\ FitsU64(indexfile)
        => /\ IsOk(result.res)
           /\ encode(result.res.val) = lstrip_A(indexfile)
           /\ \A n \in RoundTripNumbers :
                indexfile = EncodeInt(n) => U64Of(result.res.val) = n

(***************************************************************************)
(* Lines of the index file.                                                *)
(***************************************************************************)
\* The lines of a file without their line ends and trailing white space.
FileLines(text) ==
    LET pieces == split(text, 10)
        n == IF pieces[Len(pieces)] = << >> THEN Len(pieces) - 1 ELSE Len(pieces)
    IN  [l \in 1..n |-> trim_end(pieces[l])]

\* Column (counted from 1) of char j of field f of a line.
RECURSIVE ColumnOf(_, _, _)
ColumnOf(cols, f, j) ==
    IF f = 1 THEN j ELSE Len(cols[1]) + 1 + ColumnOf(Tail(cols), f - 1, j)

\* A field of a line has a char outside the alphabet.
BadFields(cols) == {f \in {2, 3} : f <= Len(cols) /\ ~OverAlphabet(cols[f])}

InvalidCharacterReturned ==
    result.res.kind = "Err" /\ result.res.err.error = "InvalidCharacter"

\* C13: an offset or size field with a char outside the alphabet makes
\* parsing fail with InvalidCharacter(c, line, col): c is such a char of the
\* field, line the number of its line (from 0) and col the position of c in
\* that line (counted from 0 or from 1); no such field is passed over.
C13_InvalidCharacter ==
    /\ InvalidCharacterReturned
         => LET e == result.res.err
                lines == FileLines(indexfile)
            IN  /\ e.line < Len(lines)
                /\ ~OverAlphabet(<<e.ch>>)
                /\ LET cols == split(lines[e.line + 1], 9)
                   IN  \E f \in BadFields(cols) : \E j \in 1..Len(cols[f]) :
                          /\ cols[f][j] = e.ch
                          /\ e.pos \in {ColumnOf(cols, f, j), ColumnOf(cols, f, j) - 1}
    /\ result.op = "Index::find" /\ ~result.was_loaded
         => LET lines == FileLines(indexfile)
            IN  /\ \A l \in 1..Len(lines) : Len(split(lines[l], 9)) >= 3
                /\ \E l \in 1..Len(lines) : BadFields(split(lines[l], 9)) # {}
                => InvalidCharacterReturned

IsMetadataLine(line) ==
    StartsWith(line, Prefix00Database) \/ StartsWith(line, Prefix00database)

\* The number of lines Index::new reads: up to the first line that is no
\* metadata line and follows one; all lines if there is none.
Scanned(lines) ==
    LET stops == {l \in 1..Len(lines) :
                     /\ ~IsMetadataLine(lines[l])
                     /\ \E k \in 1..(l - 1) : IsMetadataLine(lines[k])}
    IN  IF stops = {} THEN Len(lines) ELSE CHOOSE l \in stops : \A k \in stops : l <= k

\* A line with fewer than three fields or a bad offset or size field.
Defective(line) ==
    LET cols == split(line, 9) IN Len(cols) < 3 \/ BadFields(cols) # {}

\* A line with an offset or size field of twelve digits or more.
Overlong(line) ==
    LET cols == split(line, 9)
    IN  \E f \in {2, 3} : f <= Len(cols) /\ Len(cols[f]) >= 12

IndexErrors == {"MissingColumnInIndex", "InvalidCharacter"}

IsEntryLine(line) == ~StartsWith(split(line, 9)[1], <<48, 48>>)

\* The location a line names.
LocationOf(cols) ==
    [offset |-> U64Of(Positional(cols[2])), size |-> U64Of(Positional(cols[3]))]

\* C15: loading reads the index from position 0, wherever Index::new left
\* the reader; it skips the lines whose headword starts with "00" and yields
\* one entry for each other line, in file order, with the offset and size
\* the line names and with the line's headword (kept as the original where
\* normalization has changed the stored one).
C15_EntriesFromLines ==
    index.open /\ index.loaded
        => LET kept == SelectSeq(FileLines(indexfile), IsEntryLine)
           IN  /\ Len(index.entries) = Len(kept)
               /\ \A i \in 1..Len(kept) :
                     LET cols == split(kept[i], 9)
                         entry == index.entries[i]
                     IN  /\ cols[1] = IF index.metadata.should_normalize
                                       THEN Shown(entry) ELSE entry.headword
                         /\ entry.location = LocationOf(cols)

\* A find has loaded several entries with the reader left behind the start
\* by Index::new, from a file with "00" lines.
C15_Witness ==
    /\ result.op = "Index::find"
    /\ ~result.was_loaded
    /\ result.pos_before > 0
    /\ index.loaded
    /\ Len(index.entries) >= 2
    /\ Len(index.entries) < Len(FileLines(indexfile))

\* The lines that entry loading keeps, in file order.
EntryLines == SelectSeq(FileLines(indexfile), IsEntryLine)

\* C16: a fourth column of an index line is preserved whatever the metadata
\* flags: the entry loaded from the line has it as its original, and
\* Dict::lookup reports it as the headword of that entry's result.
C16_FourthColumnPreserved ==
    index.open /\ index.loaded /\ Len(index.entries) = Len(EntryLines)
        => /\ \A i \in 1..Len(EntryLines) :
                 LET cols == split(EntryLines[i], 9)
                 IN  Len(cols) >= 4 => index.entries[i].original = Some(cols[4])
           /\ result.op = "Dict::lookup" /\ IsOk(result.res)
                 => LET found == Index_find(index, indexfile, result.word,
                                            result.fuzzy, result.relaxed,
                                            result.pivot).res.val
                    IN  \A k \in 1..Len(found), i \in 1..Len(EntryLines) :
                           LET cols == split(EntryLines[i], 9)
                           IN  index.entries[i] = found[k] /\ Len(cols) >= 4
                                  => result.res.val[k].headword = cols[4]

\* res is a run of consecutive elements of entries.
IsSlice(res, entries) ==
    \E from \in 1..(Len(entries) - Len(res) + 1) :
        SubSeq(entries, from, from + Len(res) - 1) = res

\* res is entries with some elements left out.
RECURSIVE InOrder(_, _)
InOrder(res, entries) ==
    IF res = << >> THEN TRUE
    ELSE IF entries = << >> THEN FALSE
    ELSE IF Head(res) = Head(entries) THEN InOrder(Tail(res), Tail(entries))
    ELSE InOrder(res, Tail(entries))

LoadFails ==
    \E l \in 1..Len(FileLines(indexfile)) :
        \/ Defective(FileLines(indexfile)[l])
        \/ overflow_checks /\ Overlong(FileLines(indexfile)[l])

\* One step of the lazy loading state machine.
LazyStep ==
    /\ ~index.open /\ index'.open
         => ~index'.loaded /\ index'.entries = << >>
    /\ index.open /\ index.loaded
         => index' = index
    /\ index.open /\ ~index.loaded
         => /\ index'.open
            /\ result'.op = "Index::find"
            /\ index'.loaded = ~LoadFails
            /\ LoadFails
                 => /\ index'.entries = index.entries
                    /\ result'.res.kind \in {"Err", "Panic"}
                    /\ result'.res.kind = "Err"
                         => result'.res.err.error \in IndexErrors

\* C18: after open loaded is false and there are no entries; the first find
\* whose load succeeds sets loaded; from then on loaded stays set and no find
\* changes the entries or moves the reader; a find whose load fails returns
\* the error and leaves loaded unset and the entries as they were.
C18_LazyLoading == [][LazyStep]_vars

\* A find has run on an index that an earlier find had loaded.
C18_Witness ==
    /\ result.op = "Index::find"
    /\ result.was_loaded
    /\ index.loaded
    /\ index.entries # << >>

(***************************************************************************)
(* Fetches one after another.                                              *)
(***************************************************************************)
FetchReturned ==
    result.op \in {"Compressed::fetch_definition", "Uncompressed::fetch_definition"}

\* What the same fetch returns as the first call on a reader just opened.
FirstFetch(offset, size) ==
    IF dictkind = "dz"
    THEN Compressed_fetch_definition(Compressed_new(dzfile).reader, dzfile,
                                     offset, size).res
    ELSE Uncompressed_fetch_definition(Uncompressed_new(rawfile), rawfile,
                                       offset, size).res

\* The position of a reader just opened.
OpenedAt ==
    IF dictkind = "dz" THEN Compressed_new(dzfile).reader.pos
    ELSE Uncompressed_new(rawfile).pos

\* C19: whatever fetches came before and wherever they left the reader,
\* fetch_definition returns what it returns as the first call on a reader
\* just opened on the same file, for both readers.
C19_FetchStateless ==
    FetchReturned => result.res = FirstFetch(result.offset, result.size)

\* A fetch has returned a definition from a reader that an earlier fetch had
\* moved.
C19_Witness ==
    /\ FetchReturned
    /\ IsOk(result.res)
    /\ result.size > 0
    /\ result.pos_before # OpenedAt

(***************************************************************************)
(* Metadata strings.                                                       *)
(***************************************************************************)
\* The headword tail that names a metadata string.
TailOf(item) ==
    IF item = "info" THEN <<105, 110, 102, 111>>
    ELSE IF item = "short_name" THEN <<115, 104, 111, 114, 116>>
    ELSE <<117, 114, 108>>

\* The numbers of the lines Index::new reads that name the string.
NamedBy(item) ==
    {l \in 1..Scanned(FileLines(indexfile)) :
        LET headword == split(FileLines(indexfile)[l], 9)[1]
        IN  \/ headword = Prefix00Database \o TailOf(item)
            \/ headword = Prefix00database \o TailOf(item)}

\* The definition fetched for the last of these lines.
DefinitionOf(item) ==
    LET l == CHOOSE l \in NamedBy(item) : \A k \in NamedBy(item) : k <= l
    IN  fetch_definition(dictkind, DictReader, DictFile,
                         LocationOf(split(FileLines(indexfile)[l], 9))).res.val

White == {9, 10, 11, 12, 13, 32}

\* short is s without the white space at its ends.
IsTrimOf(short, s) ==
    \E from \in 1..(Len(s) + 1), to \in 0..Len(s) :
        /\ short = SubSeq(s, from, to)
        /\ \A j \in 1..Len(s) : j < from \/ j > to => s[j] \in White
        /\ short # << >> => short[1] \notin White /\ short[Len(short)] \notin White

\* The bytes after the first newline, if there is one and bytes follow it.
HasSecondLine(s) == \E j \in 1..(Len(s) - 1) : s[j] = 10
AfterFirstLine(s) ==
    LET j == CHOOSE j \in 1..Len(s) : s[j] = 10 /\ \A k \in 1..(j - 1) : s[k] # 10
    IN  SubSeq(s, j + 1, Len(s))

\* C20: after open, each of info, short_name and url that the index names
\* holds the fetched definition, without its first line if and only if the
\* definition has a newline with something after it, and trimmed of white
\* space at both ends; a string the index does not name is None.
C20_MetadataPostProcessed ==
    index.open /\ dictkind # "none"
        => \A item \in {"info", "short_name", "url"} :
              IF NamedBy(item) = {} THEN index.metadata[item] = None
              ELSE /\ index.metadata[item].some
                   /\ IsTrimOf(index.metadata[item].val,
                               IF HasSecondLine(DefinitionOf(item))
                               THEN AfterFirstLine(DefinitionOf(item))
                               ELSE DefinitionOf(item))

\* A dictionary is open whose short name lost its first line.
C20_Witness ==
    /\ index.open /\ dictkind # "none"
    /\ NamedBy("short_name") # {}
    /\ HasSecondLine(DefinitionOf("short_name"))
    /\ index.metadata.short_name.val # << >>

(***************************************************************************)
(* The entry vector after loading.                                         *)
(***************************************************************************)
\* C21: once the entries are loaded, the entry vector is sorted ascending by
\* (normalized) headword, whatever the index file holds: lines out of byte
\* order, or headwords whose order normalization changes.
C21_EntriesSorted ==
    index.open /\ index.loaded => SortedBy(Stored)

(***************************************************************************)
(* The run around the pivot of a relaxed exact find.                       *)
(***************************************************************************)
\* Entry i (counted from 1) and every entry between it and the pivot have a
\* transliterated headword equal to the query.
JoinsPivot(i) ==
    \A k \in 1..Len(index.entries) :
        (k >= i /\ k <= result.pivot + 1) \/ (k <= i /\ k >= result.pivot + 1)
            => Transliterated(index.entries[k]) = LastQuery

\* C22: in a relaxed exact find the run around the pivot is extended by the
\* transliterated headword: every entry that is joined to the pivot by
\* entries whose transliteration equals the query is returned, whether or
\* not its stored headword equals the query.
C22_RelaxedRunByTransliteration ==
    (Found /\ ~result.fuzzy /\ result.relaxed /\ IsOk(result.res))
        => \A i \in 1..Len(index.entries) :
              JoinsPivot(i)
                  => \E k \in 1..Len(result.res.val) :
                        result.res.val[k] = index.entries[i]

(***************************************************************************)
(* The chunk directory of the dictzip reader.                              *)
(***************************************************************************)
\* The header fields of a dictzip file as the format lays them out.
XlenOf(f) == ReadU16(f, 10)
ChunkCountIn(f) == ReadU16(f, 20)
SizesIn(f) == [i \in 1..ChunkCountIn(f) |-> ReadU16(f, 20 + 2 * i)]

\* The length of the NUL-terminated field that starts at byte pos (from 0),
\* its NUL included.
FieldLen(f, pos) ==
    (CHOOSE j \in (pos + 1)..Len(f) :
        f[j] = 0 /\ \A k \in (pos + 1)..(j - 1) : f[k] # 0) - pos

NameLen(f) == IF HasFlag(f[4], GZ_FNAME) THEN FieldLen(f, 12 + XlenOf(f)) ELSE 0
CommentLen(f) ==
    IF HasFlag(f[4], GZ_COMMENT) THEN FieldLen(f, 12 + XlenOf(f) + NameLen(f)) ELSE 0
CrcLen(f) == IF HasFlag(f[4], GZ_FHCRC) THEN 2 ELSE 0

\* The position after the optional fields.
HeaderEnd(f) == 12 + XlenOf(f) + NameLen(f) + CommentLen(f) + CrcLen(f)

\* The directory of the reader is the one the header of its file names.
DirectoryOfHeader ==
    LET O == dz.chunk_offsets
        sizes == SizesIn(dzfile)
        n == ChunkCountIn(dzfile)
    IN  /\ Len(O) = n
        /\ O[1] = HeaderEnd(dzfile)
        /\ \A i \in 1..(n - 1) : O[i + 1] = O[i] + sizes[i]
        /\ dz.end_compressed_data = O[n] + sizes[n]

StrictlyIncreasing(O) == \A i, j \in 1..Len(O) : i < j => O[i] < O[j]

\* One step of a reader: what Compressed::new returns has the directory of
\* the header, strictly increasing, and no fetch changes it.
DirectoryStep ==
    /\ dz'.open => DirectoryOfHeader' /\ StrictlyIncreasing(dz'.chunk_offsets)
    /\ dz.open => /\ dz'.open
                  /\ dz'.chunk_offsets = dz.chunk_offsets
                  /\ dz'.end_compressed_data = dz.end_compressed_data

\* C23: every reader Compressed::new returns has chunk_count offsets,
\* O[0] = header_end, O[i+1] = O[i] + sizes[i], end_compressed_data =
\* O[chunk_count-1] + sizes[chunk_count-1] and O strictly increasing, and
\* fetch_definition never changes the directory.
C23_ChunkDirectory == [][DirectoryStep]_vars

\* The reader of the file that differs from dzfile in not having the
\* optional field of flag bit field, and the bytes of that file.
Without_field(field) == DzFile(content, dz.uchunk_length, dzfile[4] - field)

\* C24: header_end is the position after the fixed header, the FEXTRA
\* payload, the name with its NUL if FNAME is set, the comment with its NUL
\* if FCOMMENT is set and two bytes if FHCRC is set, in this order; a file
\* with a name or a comment has every chunk offset moved by the length of
\* that field against the file without it, and every fetch returns the same.
C24_HeaderEnd ==
    dz.open
        => /\ dz.chunk_offsets[1] = HeaderEnd(dzfile)
           /\ wellformed
                => \A field \in {GZ_FNAME, GZ_COMMENT} :
                      HasFlag(dzfile[4], field)
                          => LET other == Without_field(field)
                                 base == Compressed_new(other).reader
                                 moved == IF field = GZ_FNAME THEN NameLen(dzfile)
                                          ELSE CommentLen(dzfile)
                             IN  /\ base.open
                                 /\ Len(base.chunk_offsets) = Len(dz.chunk_offsets)
                                 /\ \A i \in 1..Len(dz.chunk_offsets) :
                                       dz.chunk_offsets[i] = base.chunk_offsets[i] + moved
                                 /\ DzFetched
                                      => result.res =
                                           Compressed_fetch_definition(
                                               base, other, result.offset,
                                               result.size).res

\* A definition has been fetched from a file with a name and a comment.
C24_Witness ==
    /\ DzFetched /\ wellformed
    /\ HasFlag(dzfile[4], GZ_FNAME) /\ HasFlag(dzfile[4], GZ_COMMENT)
    /\ NameLen(dzfile) > 1 /\ CommentLen(dzfile) > 1
    /\ IsOk(result.res)
    /\ result.size > 0

(***************************************************************************)
(* The stored length of the uncompressed text.                             *)
(***************************************************************************)
\* The four bytes at end_compressed_data: the low 31 bits of the unsigned
\* little-endian value, and its top bit.
StoredLow31 ==
    LET at == dz.end_compressed_data
    IN  dzfile[at + 1] + 256 * dzfile[at + 2] + 65536 * dzfile[at + 3]
        + 16777216 * (dzfile[at + 4] % 128)
StoredTopBit == dzfile[dz.end_compressed_data + 4] >= 128

\* C25: ufile_length is the unsigned 32-bit little-endian value stored at
\* end_compressed_data: a value below 2^32 (so none of the highest 2^31
\* values of u64, which are written as negative numbers), also when the
\* stored value has its top bit set.
C25_UfileLengthUnsigned ==
    dz.open
        => /\ dz.ufile_length >= 0
           /\ ~StoredTopBit => dz.ufile_length = StoredLow31

(***************************************************************************)
(* Fetches that pass the bounds checks.                                    *)
(***************************************************************************)
\* The request of the last fetch passes both checks of fetch_definition:
\* the size is within MAX_BYTES_FOR_BUFFER and the sum of offset and size,
\* as the build computes it, is below ufile_length.
PassesBoundsChecks ==
    /\ U64Le(result.size, MAX_BYTES_FOR_BUFFER)
    /\ ~(overflow_checks /\ U64AddOverflows(result.offset, result.size))
    /\ U64Lt(result.offset + result.size, dz.ufile_length)

\* C28: every reader Compressed::new returns has uchunk_length > 0, and for
\* every request that passes the bounds checks every chunk id from
\* offset / uchunk_length to (offset + size) / uchunk_length is below
\* chunk_count: the fetch returns Ok or Err and never aborts.
C28_FetchNeverAborts ==
    /\ dz.open => dz.uchunk_length > 0
    /\ (DzFetched /\ PassesBoundsChecks)
         => /\ result.res.kind \in {"Ok", "Err"}
            /\ \A id \in U64Div(result.offset, dz.uchunk_length)
                         ..U64Div(result.offset + result.size, dz.uchunk_length) :
                  id < Len(dz.chunk_offsets)

(***************************************************************************)
(* The metadata lines of the index.                                        *)
(***************************************************************************)
\* The headword of a metadata line after its prefix.
MetadataTail(line) ==
    LET headword == split(line, 9)[1]
        prefix == IF StartsWith(headword, Prefix00Database) THEN Prefix00Database
                  ELSE Prefix00database
    IN  SubSeq(headword, Len(prefix) + 1, Len(headword))

\* The numbers of the metadata lines that parse_metadata reads.
ScannedMetadata ==
    {l \in 1..Scanned(FileLines(indexfile)) : IsMetadataLine(FileLines(indexfile)[l])}

\* The location of the last scanned metadata line of the section, if any.
LastLocation(section) ==
    LET at == {l \in ScannedMetadata : MetadataTail(FileLines(indexfile)[l]) = section}
        last == CHOOSE l \in at : \A k \in at : k <= l
    IN  IF at = {} THEN None
        ELSE Some(LocationOf(split(FileLines(indexfile)[last], 9)))

\* The sections that are matched as a whole.
WholeSections ==
    {<<105, 110, 102, 111>>, <<115, 104, 111, 114, 116>>, <<117, 114, 108>>,
     <<97, 108, 108, 99, 104, 97, 114, 115>>}
HasCase(tail) == Contains(tail, <<99, 97, 115, 101>>)
HasDictfmt(tail) == Contains(tail, <<100, 105, 99, 116, 102, 109, 116>>)

\* The MetadataIndex of the scanned lines, given which tails count as a
\* "case" line and which as a "dictfmt" line.
MetadataOfLines(is_case(_), is_dictfmt(_)) ==
    [info |-> LastLocation(<<105, 110, 102, 111>>),
     short_name |-> LastLocation(<<115, 104, 111, 114, 116>>),
     url |-> LastLocation(<<117, 114, 108>>),
     all_chars |-> \E l \in ScannedMetadata :
                      MetadataTail(FileLines(indexfile)[l])
                          = <<97, 108, 108, 99, 104, 97, 114, 115>>,
     case_sensitive |-> \E l \in ScannedMetadata :
                           is_case(MetadataTail(FileLines(indexfile)[l])),
     should_normalize |-> \E l \in ScannedMetadata :
                             is_dictfmt(MetadataTail(FileLines(indexfile)[l]))]

\* The position of the reader behind the first n lines of the file.
RECURSIVE BehindLines(_, _)
BehindLines(text, n) ==
    IF n = 0 \/ text = << >> THEN 0
    ELSE Len(read_line(text, 0))
         + BehindLines(SubSeq(text, Len(read_line(text, 0)) + 1, Len(text)), n - 1)

\* Index::new has read the metadata into parsed; the reader stands behind
\* the scanned lines and the index has the flags.
MetadataRead(parsed) ==
    /\ parse_metadata(indexfile).res = Ok(parsed)
    /\ index.pos = BehindLines(indexfile, Scanned(FileLines(indexfile)))
    /\ index.metadata.all_chars = parsed.all_chars
    /\ index.metadata.case_sensitive = parsed.case_sensitive
    /\ index.metadata.should_normalize = parsed.should_normalize

IndexOpened == result.op = "Index::new" /\ IsOk(result.res)

\* C26 as stated: parse_metadata reads from position 0 up to the first line
\* that is no metadata line and follows one; of the metadata lines read, the
\* tail "info", "short" or "url" records the location, "allchars" sets
\* all_chars, a tail with "case" sets case_sensitive and a tail with
\* "dictfmt" sets should_normalize; later metadata lines have no effect.
C26_MetadataBySubstring ==
    IndexOpened => MetadataRead(MetadataOfLines(HasCase, HasDictfmt))

\* C26: as above, each tail being classified by the first row that fits:
\* a tail with "case" sets case_sensitive only, and only a tail without
\* "case" that has "dictfmt" sets should_normalize.
C26_MetadataByFirstMatch ==
    LET is_case(tail) == tail \notin WholeSections /\ HasCase(tail)
        is_dictfmt(tail) ==
            tail \notin WholeSections /\ ~HasCase(tail) /\ HasDictfmt(tail)
    IN  IndexOpened => MetadataRead(MetadataOfLines(is_case, is_dictfmt))

\* Index::new has read metadata lines that follow an entry line, and has
\* left a metadata line unread.
C26_Witness ==
    /\ IndexOpened
    /\ ScannedMetadata # {}
    /\ ~IsMetadataLine(FileLines(indexfile)[1])
    /\ \E l \in 1..Len(FileLines(indexfile)) :
          l > Scanned(FileLines(indexfile)) /\ IsMetadataLine(FileLines(indexfile)[l])
    /\ index.metadata.should_normalize

(***************************************************************************)
(* Normalization of the entries at load.                                   *)
(***************************************************************************)
\* The normalized form of a headword, char by char: a char that is neither
\* alphanumeric nor white space is dropped unless all_chars; a char is
\* lowered unless case_sensitive.
RECURSIVE NormalForm(_)
NormalForm(headword) ==
    IF headword = << >> THEN << >>
    ELSE (IF ~index.metadata.all_chars
             /\ ~is_alphanumeric(Head(headword)) /\ ~is_whitespace(Head(headword))
          THEN << >>
          ELSE IF index.metadata.case_sensitive THEN <<Head(headword)>>
          ELSE LowerChar(Head(headword)))
         \o NormalForm(Tail(headword))

\* C27: with should_normalize set, every loaded entry has the normalized
\* form of its line's headword, and has that headword as its original if
\* and only if the normalized form differs from it; with should_normalize
\* unset every entry has the headword of its line as it stands in the file.
C27_NormalizedAtLoad ==
    index.open /\ index.loaded
        => /\ Len(index.entries) = Len(EntryLines)
           /\ \A i \in 1..Len(EntryLines) :
                 LET in_file == split(EntryLines[i], 9)[1]
                     entry == index.entries[i]
                 IN  IF index.metadata.should_normalize
                     THEN /\ entry.headword = NormalForm(in_file)
                          /\ entry.original.some <=> NormalForm(in_file) # in_file
                          /\ entry.original.some => entry.original.val = in_file
                     ELSE entry.headword = in_file

\* Entries have been loaded with normalization: one whose headword lost a
\* char and was lowered, and one whose headword stayed as it was.
C27_Witness ==
    /\ index.open /\ index.loaded
    /\ index.metadata.should_normalize
    /\ \E i, j \in 1..Len(index.entries) :
          /\ index.entries[i].original.some
          /\ Len(index.entries[i].headword) < Len(index.entries[i].original.val)
          /\ index.entries[j].original.some
          /\ Len(index.entries[j].headword) = Len(index.entries[j].original.val)
    /\ \E k \in 1..Len(index.entries) : ~index.entries[k].original.some

(***************************************************************************)
(* Exact and fuzzy find side by side.                                      *)
(***************************************************************************)
\* What the fuzzy find of the last query returns in the current state.
FuzzyFound ==
    Index_find(index, indexfile, result.word, TRUE, result.relaxed, -1).res

\* C29: whenever an exact find returns Ok(R), the fuzzy find of the same
\* query with the same relaxed flag returns Ok(F), and every entry of R is
\* an entry of F.
C29_FuzzySubsumesExact ==
    (result.op = "Index::find" /\ ~result.fuzzy /\ IsOk(result.res))
        => /\ IsOk(FuzzyFound)
           /\ \A k \in 1..Len(result.res.val) :
                 \E j \in 1..Len(FuzzyFound.val) :
                    FuzzyFound.val[j] = result.res.val[k]

\* An exact find has returned a run of entries, and the fuzzy find of the
\* same query returns these and more.
C29_Witness ==
    /\ result.op = "Index::find" /\ ~result.fuzzy /\ IsOk(result.res)
    /\ Len(result.res.val) >= 2
    /\ IsOk(FuzzyFound)
    /\ Len(FuzzyFound.val) > Len(result.res.val)

(***************************************************************************)
(* Seeks of the MmapCursor.                                                *)
(***************************************************************************)
\* The base of the last seek: the position before it, or the length of the
\* mapped bytes.
SeekBase == IF result.from = "End" THEN Len(rawfile) ELSE result.pos_before

\* base + n is negative or does not fit a u64 (a base written as a
\* negative number is 2^64 more).
OffRange(base, n) == IF base >= 0 THEN base + n < 0 ELSE base + n >= 0

\* C30: seek sets pos to n for Start(n), and to base + n for Current(n)
\* (base the position) and End(n) (base the length), backwards for negative
\* n; when base + n is negative or overflows u64 it returns InvalidInput
\* and leaves pos unchanged.
C30_SeekSigned ==
    (result.op = "MmapCursor::seek" /\ result.locked)
        => IF result.from = "Start"
           THEN result.res = Ok(result.n) /\ raw.pos = result.n
           ELSE IF OffRange(SeekBase, result.n)
           THEN result.res = Err(InvalidInput) /\ raw.pos = result.pos_before
           ELSE /\ result.res = Ok(SeekBase + result.n)
                /\ raw.pos = SeekBase + result.n

====
